---- MODULE Spec2Model ----
(***************************************************************************)
(* Spell Chess: the rules engine (src/lib/gameEngine.ts), its replay       *)
(* driver and the PATCH handler that persists the compact action log       *)
(* (src/app/api/game/[id]/route.ts).                                       *)
(*                                                                         *)
(* Strings that the code takes apart (compact tokens, notations) are       *)
(* sequences of one-character strings; messages are plain strings.         *)
(* A board cell, an en-passant target, a pending promotion that the code   *)
(* holds as null is a record of the same shape with a null marker.         *)
(***************************************************************************)
EXTENDS Integers, Sequences, FiniteSets, TLC

VARIABLES
    gs,                   \* the GameState the caller currently holds
    pendingSpellNotation, \* the caller's single slot for this half-move's spell
    todo,                 \* replay driver: tokens still to process
    rstatus,              \* replay driver: "idle" | "running" | "done" | "error"
    pieceIdSeq,           \* the module-level counter _pieceIdSeq
    lastCall,             \* the last engine call that succeeded on gs
    loadedLen,            \* the half-moves gs held when the caller loaded it
    row,                  \* the stored games row
    handlers,             \* the PATCH handlers in flight
    compactLog,           \* the client hook's compactLog
    ui,                   \* the client hook's ui: selectedPiece, spellMode, spellCaster
    channel               \* realtime UPDATE payloads not yet delivered to the client

vars == <<gs, pendingSpellNotation, todo, rstatus, pieceIdSeq, lastCall, loadedLen, row, handlers,
         compactLog, ui, channel>>

----------------------------------------------------------------------------
(* Constants of the program *)

SPELL_COOLDOWN_TURNS == 3
InitialJump == 2
InitialFreeze == 5
SpellLifetimePlies == 2

Idx == 0..7

INITIAL_BOARD_SETUP ==
    << <<"r", "n", "b", "q", "k", "b", "n", "r">>,
       <<"p", "p", "p", "p", "p", "p", "p", "p">>,
       <<"", "", "", "", "", "", "", "">>,
       <<"", "", "", "", "", "", "", "">>,
       <<"", "", "", "", "", "", "", "">>,
       <<"", "", "", "", "", "", "", "">>,
       <<"P", "P", "P", "P", "P", "P", "P", "P">>,
       <<"R", "N", "B", "Q", "K", "B", "N", "R">> >>

----------------------------------------------------------------------------
(* Evaluation helper: F applied to the value of x, with x evaluated once *)

With(x, F(_)) == CHOOSE y \in { F(v) : v \in {x} } : TRUE

----------------------------------------------------------------------------
(* Characters *)

UpperLetters == <<"A","B","C","D","E","F","G","H","J","K","N","P","Q","R","X">>
LowerLetters == <<"a","b","c","d","e","f","g","h","j","k","n","p","q","r","x">>

\* String.prototype.toLowerCase on a one-character string
toLowerCase(ch) ==
    IF \E i \in 1..Len(UpperLetters) : UpperLetters[i] = ch
    THEN LowerLetters[CHOOSE i \in 1..Len(UpperLetters) : UpperLetters[i] = ch]
    ELSE ch

\* String.prototype.toUpperCase on a one-character string
toUpperCase(ch) ==
    IF \E i \in 1..Len(LowerLetters) : LowerLetters[i] = ch
    THEN UpperLetters[CHOOSE i \in 1..Len(LowerLetters) : LowerLetters[i] = ch]
    ELSE ch

FileChars == <<"a","b","c","d","e","f","g","h">>
DigitChars == <<"0","1","2","3","4","5","6","7","8","9">>

\* charCodeAt(0) - 97 for the characters the model uses; letters past 'h'
\* and every non-letter land outside 0..7
FileIndex(ch) ==
    IF \E i \in 1..8 : FileChars[i] = ch
    THEN (CHOOSE i \in 1..8 : FileChars[i] = ch) - 1
    ELSE IF \E i \in 1..Len(LowerLetters) : LowerLetters[i] = ch THEN 8 ELSE -1

IsDigit(ch) == \E i \in 1..10 : DigitChars[i] = ch

\* parseInt(ch, 10) of one character; -1 stands for NaN
parseInt(ch) ==
    IF IsDigit(ch) THEN (CHOOSE i \in 1..10 : DigitChars[i] = ch) - 1 ELSE -1

\* Strings as character sequences
Str_jump == <<"j","u","m","p">>
Str_freeze == <<"f","r","e","e","z","e">>

Includes(s, ch) == \E i \in 1..Len(s) : s[i] = ch

IndexOf(s, ch) == IF Includes(s, ch) THEN CHOOSE i \in 1..Len(s) : s[i] = ch /\ \A j \in 1..(i-1) : s[j] # ch ELSE 0

\* s.split(ch)[0] and s.split(ch)[1]; <<>> for a missing part
RECURSIVE SplitParts(_, _)
SplitParts(s, ch) ==
    IF ~Includes(s, ch) THEN << s >>
    ELSE << SubSeq(s, 1, IndexOf(s, ch) - 1) >> \o SplitParts(SubSeq(s, IndexOf(s, ch) + 1, Len(s)), ch)

Substring02(s) == SubSeq(s, 1, IF Len(s) < 2 THEN Len(s) ELSE 2)

----------------------------------------------------------------------------
(* Data model *)

Null == [type |-> "", color |-> "none", id |-> <<>>,
         isFrozen |-> FALSE, isJumpable |-> FALSE, hasMoved |-> FALSE]

NoSquare == [r |-> -1, c |-> -1]

\* the fields of the hook's UIState that its handlers read, "" for null
DEFAULT_UI == [selectedPiece |-> NoSquare, spellMode |-> "", spellCaster |-> ""]

NoPromotion == [r |-> -1, c |-> -1, color |-> "none", originalMoveNotation |-> <<>>,
                movingPiece |-> Null, fromR |-> -1, fromC |-> -1]

Opponent(color) == IF color = "white" THEN "black" ELSE "white"

Capitalize(color) == IF color = "white" THEN "White" ELSE "Black"

\* `p-${r}-${c}-${++_pieceIdSeq}`
newPieceId(r, c, seq) == <<r, c, seq>>

\* the number of pieces placed before (r, c) in row-major order
PiecesBefore(r, c) ==
    Cardinality({ rc \in Idx \X Idx :
        /\ INITIAL_BOARD_SETUP[rc[1] + 1][rc[2] + 1] # ""
        /\ (rc[1] < r \/ (rc[1] = r /\ rc[2] < c)) })

\* the signature of a snapshot for threefold repetition
generateStateSignature(s) ==
    [boardStr |-> [r \in Idx |-> [c \in Idx |->
                      IF s.board[r][c] = Null THEN <<" ">>
                      ELSE IF s.board[r][c].isJumpable THEN <<s.board[r][c].type, "*">>
                      ELSE <<s.board[r][c].type>>]],
     currentPlayer |-> s.currentPlayer,
     castlingRights |-> s.castlingRights,
     enPassantTarget |-> s.enPassantTarget,
     cooldowns |-> <<s.spells.white.jumpLastUsedTurn, s.spells.white.freezeLastUsedTurn,
                     s.spells.black.jumpLastUsedTurn, s.spells.black.freezeLastUsedTurn>>]

createSnapshot(s) ==
    [board |-> s.board, currentPlayer |-> s.currentPlayer,
     gameTurnNumber |-> s.gameTurnNumber, plyCount |-> s.plyCount,
     spells |-> s.spells, activeSpells |-> s.activeSpells, moveLog |-> s.moveLog,
     enPassantTarget |-> s.enPassantTarget, castlingRights |-> s.castlingRights,
     isGameOver |-> s.isGameOver, gameEndMessage |-> s.gameEndMessage,
     awaitingPromotion |-> s.awaitingPromotion]

\* repetitionCounter[sig] || 0
RepCount(rc, sig) == IF sig \in DOMAIN rc THEN rc[sig] ELSE 0

RepSet(rc, sig, n) == [k \in (DOMAIN rc) \cup {sig} |-> IF k = sig THEN n ELSE rc[k]]

createInitialGameState(seq) ==
    LET board == [r \in Idx |-> [c \in Idx |->
                    LET t == INITIAL_BOARD_SETUP[r + 1][c + 1] IN
                    IF t = "" THEN Null
                    ELSE [type |-> t,
                          color |-> IF t = toUpperCase(t) THEN "white" ELSE "black",
                          id |-> newPieceId(r, c, seq + PiecesBefore(r, c) + 1),
                          isFrozen |-> FALSE, isJumpable |-> FALSE, hasMoved |-> FALSE]]]
        state == [board |-> board,
                  currentPlayer |-> "white",
                  gameTurnNumber |-> 1,
                  plyCount |-> 0,
                  spells |-> [white |-> [jump |-> InitialJump, freeze |-> InitialFreeze,
                                         jumpLastUsedTurn |-> 0, freezeLastUsedTurn |-> 0],
                              black |-> [jump |-> InitialJump, freeze |-> InitialFreeze,
                                         jumpLastUsedTurn |-> 0, freezeLastUsedTurn |-> 0]],
                  activeSpells |-> <<>>,
                  moveLog |-> <<>>,
                  enPassantTarget |-> NoSquare,
                  castlingRights |-> [white |-> [K |-> TRUE, Q |-> TRUE],
                                      black |-> [k |-> TRUE, q |-> TRUE]],
                  isGameOver |-> FALSE,
                  gameEndMessage |-> "",
                  awaitingPromotion |-> NoPromotion,
                  history |-> <<>>,
                  repetitionCounter |-> << >>]
    IN With(state, LAMBDA st :
         With(createSnapshot(st), LAMBDA snap :
           [st EXCEPT !.history = <<snap>>,
                      !.repetitionCounter = RepSet(<< >>, generateStateSignature(snap), 1)]))

----------------------------------------------------------------------------
(* Coordinates *)

algebraicFromCoords(r, c) == <<FileChars[c + 1], DigitChars[(8 - r) + 1]>>

\* NoSquare stands for null
parseAlgebraicToCoords(alg) ==
    IF Len(alg) # 2 THEN NoSquare
    ELSE LET file == FileIndex(alg[1])
             n == parseInt(alg[2])
             rank == 8 - n
         IN IF file < 0 \/ file > 7 \/ n = -1 \/ rank < 0 \/ rank > 7 THEN NoSquare
            ELSE [r |-> rank, c |-> file]

----------------------------------------------------------------------------
(* Spell helpers *)

\* a cooldown test that never holds a spell back
isSpellOnCooldownNever(spellState, spellType, currentTurn) == FALSE

isSpellOnCooldown(spellState, spellType, currentTurn) ==
    LET lastUsed == IF spellType = "jump" THEN spellState.jumpLastUsedTurn
                    ELSE spellState.freezeLastUsedTurn
    IN IF lastUsed = 0 THEN FALSE
       ELSE currentTurn < lastUsed + SPELL_COOLDOWN_TURNS

\* a cast test that does not look at the remaining charges
canCastSpellAnyCharges(state, spellType) ==
    ~isSpellOnCooldown(state.spells[state.currentPlayer], spellType, state.gameTurnNumber)

canCastSpell(state, spellType) ==
    LET ps == state.spells[state.currentPlayer]
        count == IF spellType = "jump" THEN ps.jump ELSE ps.freeze
    IN IF count <= 0 THEN FALSE
       ELSE ~isSpellOnCooldown(ps, spellType, state.gameTurnNumber)

Max(a, b) == IF a > b THEN a ELSE b
Min(a, b) == IF a < b THEN a ELSE b
Abs(a) == IF a < 0 THEN -a ELSE a
Sign(a) == IF a > 0 THEN 1 ELSE IF a < 0 THEN -1 ELSE 0

\* one freeze spell's zone test (the body of the loop)
InFreezeZone(sqR, sqC, spell) ==
    /\ sqR >= Max(0, spell.targetSquare.r - 1)
    /\ sqR <= Min(7, spell.targetSquare.r + 1)
    /\ sqC >= Max(0, spell.targetSquare.c - 1)
    /\ sqC <= Min(7, spell.targetSquare.c + 1)

isSquareUnderActiveFreeze(sqR, sqC, activeSpells, currentPly) ==
    \E i \in 1..Len(activeSpells) :
        /\ activeSpells[i].type = "freeze"
        /\ currentPly < activeSpells[i].expiresAtPly
        /\ InFreezeZone(sqR, sqC, activeSpells[i])

\* the first square in row-major order holding the id; NoSquare when absent
findPieceById(board, id) ==
    IF \E r \in Idx, c \in Idx : board[r][c] # Null /\ board[r][c].id = id
    THEN LET rc == CHOOSE rc \in Idx \X Idx :
                     /\ board[rc[1]][rc[2]] # Null /\ board[rc[1]][rc[2]].id = id
                     /\ \A qc \in Idx \X Idx :
                          (board[qc[1]][qc[2]] # Null /\ board[qc[1]][qc[2]].id = id)
                          => (rc[1] < qc[1] \/ (rc[1] = qc[1] /\ rc[2] <= qc[2]))
         IN [r |-> rc[1], c |-> rc[2]]
    ELSE NoSquare

\* an expiry test that lets a spell live one ply longer
SpellExpiredLate(plyCount, spell) == plyCount > spell.expiresAtPly

\* the expiry test of updateActiveSpells
SpellExpired(plyCount, spell) == plyCount >= spell.expiresAtPly

\* the board after processing activeSpells[1..n]: every expired jump clears
\* its target's flag, in list order
RECURSIVE ClearExpiredJumps(_, _, _, _)
ClearExpiredJumps(board, activeSpells, plyCount, n) ==
    IF n = 0 THEN board
    ELSE With(ClearExpiredJumps(board, activeSpells, plyCount, n - 1), LAMBDA b :
           LET spell == activeSpells[n]
           IN IF SpellExpired(plyCount, spell) /\ spell.type = "jump" /\ spell.targetId # <<>>
              THEN With(findPieceById(b, spell.targetId), LAMBDA at :
                     IF at # NoSquare
                     THEN [b EXCEPT ![at.r][at.c].isJumpable = FALSE]
                     ELSE b)
              ELSE b)

\* an expiry that drops the spells and leaves the jumpable flags
updateActiveSpellsKeepsFlags(state) ==
    With(state, LAMBDA ns :
      [ns EXCEPT
        !.activeSpells = SelectSeq(ns.activeSpells,
                                   LAMBDA sp : ~SpellExpired(ns.plyCount, sp))])

updateActiveSpells(state) ==
    With(state, LAMBDA ns :
      [ns EXCEPT
        !.board = ClearExpiredJumps(ns.board, ns.activeSpells, ns.plyCount,
                                    Len(ns.activeSpells)),
        !.activeSpells = SelectSeq(ns.activeSpells,
                                   LAMBDA sp : ~SpellExpired(ns.plyCount, sp))])

----------------------------------------------------------------------------
(* Attack engine *)

RECURSIVE PathWalk(_, _, _, _, _, _, _)
PathWalk(r, c, toR, toC, dr, dc, board) ==
    IF r = toR /\ c = toC THEN TRUE
    ELSE IF r < 0 \/ r >= 8 \/ c < 0 \/ c >= 8 THEN FALSE
    ELSE IF board[r][c] # Null /\ ~board[r][c].isJumpable THEN FALSE
    ELSE PathWalk(r + dr, c + dc, toR, toC, dr, dc, board)

isPathClear(fromR, fromC, toR, toC, board) ==
    LET dr == Sign(toR - fromR)
        dc == Sign(toC - fromC)
    IN PathWalk(fromR + dr, fromC + dc, toR, toC, dr, dc, board)

\* whether the piece on (r, c) attacks the target: the loop body that
\* isSquareAttacked and getAttackers share
PieceAttacks(r, c, targetR, targetC, attackerColor, board, activeSpells, currentPly) ==
    LET piece == board[r][c]
        t == toLowerCase(piece.type)
        frozen == piece.isFrozen \/ isSquareUnderActiveFreeze(r, c, activeSpells, currentPly)
    IN /\ piece # Null
       /\ piece.color = attackerColor
       /\ ~(frozen /\ t # "k")
       /\ IF t = "p"
          THEN LET dir == IF attackerColor = "white" THEN -1 ELSE 1
               IN r + dir = targetR /\ Abs(c - targetC) = 1
          ELSE IF t = "n"
          THEN LET dr == Abs(targetR - r)
                   dc == Abs(targetC - c)
               IN (dr = 2 /\ dc = 1) \/ (dr = 1 /\ dc = 2)
          ELSE IF t = "k"
          THEN Abs(targetR - r) <= 1 /\ Abs(targetC - c) <= 1
          ELSE \/ /\ t = "r" \/ t = "q"
                  /\ r = targetR \/ c = targetC
                  /\ isPathClear(r, c, targetR, targetC, board)
               \/ /\ t = "b" \/ t = "q"
                  /\ Abs(targetR - r) = Abs(targetC - c)
                  /\ isPathClear(r, c, targetR, targetC, board)

isSquareAttacked(targetR, targetC, attackerColor, board, enPassantTarget, activeSpells, currentPly) ==
    \E r \in Idx, c \in Idx :
        PieceAttacks(r, c, targetR, targetC, attackerColor, board, activeSpells, currentPly)

KingType(color) == IF color = "white" THEN "K" ELSE "k"

\* the first square in row-major order holding a piece of that type
FindType(board, type) ==
    IF \E r \in Idx, c \in Idx : board[r][c].type = type
    THEN LET rc == CHOOSE rc \in Idx \X Idx :
                     /\ board[rc[1]][rc[2]].type = type
                     /\ \A qc \in Idx \X Idx : board[qc[1]][qc[2]].type = type
                          => (rc[1] < qc[1] \/ (rc[1] = qc[1] /\ rc[2] <= qc[2]))
         IN [r |-> rc[1], c |-> rc[2]]
    ELSE NoSquare

isKingInCheck(kingColor, board, enPassantTarget, activeSpells, currentPly) ==
    \E kingPos \in {FindType(board, KingType(kingColor))} :
       IF kingPos = NoSquare THEN FALSE
       ELSE isSquareAttacked(kingPos.r, kingPos.c, Opponent(kingColor), board,
                             enPassantTarget, activeSpells, currentPly)

\* the attackers' squares
getAttackers(targetR, targetC, attackerColor, board, enPassantTarget, activeSpells, currentPly) ==
    { rc \in Idx \X Idx :
        PieceAttacks(rc[1], rc[2], targetR, targetC, attackerColor, board, activeSpells, currentPly) }

----------------------------------------------------------------------------
(* Move validation *)

checkCastleConditions(kingFromR, kingFromC, kingToR, kingToC, board, player, castlingRights, activeSpells, currentPly, enPassantTarget) ==
    LET king == board[kingFromR][kingFromC]
        opp == Opponent(player)
        kingside == kingToC > kingFromC
        Cell(c) == IF c \in Idx THEN board[kingFromR][c] ELSE Null
        Attacked(c) == isSquareAttacked(kingFromR, c, opp, board, enPassantTarget,
                                        activeSpells, currentPly)
    IN IF king = Null \/ king.hasMoved THEN FALSE
       ELSE IF isKingInCheck(player, board, enPassantTarget, activeSpells, currentPly) THEN FALSE
       ELSE IF kingside
       THEN LET rook == board[kingFromR][7]
            IN IF player = "white" /\ ~castlingRights.white.K THEN FALSE
               ELSE IF player = "black" /\ ~castlingRights.black.k THEN FALSE
               ELSE IF rook = Null \/ toLowerCase(rook.type) # "r" \/ rook.hasMoved THEN FALSE
               ELSE IF Cell(kingFromC + 1) # Null \/ Cell(kingFromC + 2) # Null THEN FALSE
               ELSE IF Attacked(kingFromC + 1) \/ Attacked(kingFromC + 2) THEN FALSE
               ELSE TRUE
       ELSE LET rook == board[kingFromR][0]
            IN IF player = "white" /\ ~castlingRights.white.Q THEN FALSE
               ELSE IF player = "black" /\ ~castlingRights.black.q THEN FALSE
               ELSE IF rook = Null \/ toLowerCase(rook.type) # "r" \/ rook.hasMoved THEN FALSE
               ELSE IF Cell(kingFromC - 1) # Null \/ Cell(kingFromC - 2) # Null
                       \/ Cell(kingFromC - 3) # Null THEN FALSE
               ELSE IF Attacked(kingFromC - 1) \/ Attacked(kingFromC - 2) THEN FALSE
               ELSE TRUE

\* the frozen test on the moving piece
MoverFrozen(moving, fromR, fromC, activeSpells, currentPly) ==
    moving.isFrozen \/ isSquareUnderActiveFreeze(fromR, fromC, activeSpells, currentPly)

\* the switch on the piece type: the move's geometry
GeometryValid(t, moving, target, fromR, fromC, toR, toC, board, enPassantTarget) ==
    IF t = "p"
    THEN LET dir == IF moving.color = "white" THEN -1 ELSE 1
         IN IF toR = fromR + dir /\ toC = fromC /\ target = Null THEN TRUE
            ELSE IF toR = fromR + 2 * dir /\ toC = fromC /\ ~moving.hasMoved /\ target = Null
            THEN LET mid == board[fromR + dir][fromC]
                 IN mid = Null \/ mid.isJumpable
            ELSE IF toR = fromR + dir /\ Abs(toC - fromC) = 1 /\ target # Null
                    /\ target.color # moving.color
            THEN TRUE
            ELSE IF toR = fromR + dir /\ Abs(toC - fromC) = 1 /\ target = Null
                    /\ enPassantTarget # NoSquare
                    /\ toR = enPassantTarget.r /\ toC = enPassantTarget.c
            THEN LET epPawn == board[fromR][toC]
                 IN epPawn # Null /\ toLowerCase(epPawn.type) = "p"
                    /\ epPawn.color # moving.color
            ELSE FALSE
    ELSE IF t = "n"
    THEN LET dr == Abs(toR - fromR)
             dc == Abs(toC - fromC)
         IN (dr = 2 /\ dc = 1) \/ (dr = 1 /\ dc = 2)
    ELSE IF t = "b"
    THEN Abs(toR - fromR) = Abs(toC - fromC) /\ isPathClear(fromR, fromC, toR, toC, board)
    ELSE IF t = "r"
    THEN (fromR = toR \/ fromC = toC) /\ isPathClear(fromR, fromC, toR, toC, board)
    ELSE IF t = "q"
    THEN ((fromR = toR \/ fromC = toC) \/ Abs(toR - fromR) = Abs(toC - fromC))
         /\ isPathClear(fromR, fromC, toR, toC, board)
    ELSE IF t = "k"
    THEN Abs(toR - fromR) <= 1 /\ Abs(toC - fromC) <= 1
    ELSE FALSE

\* the scratch board of the king-safety simulation
SimulatedBoard(board, t, target, fromR, fromC, toR, toC, enPassantTarget) ==
    LET moved == [board EXCEPT ![toR][toC] = board[fromR][fromC], ![fromR][fromC] = Null]
    IN IF t = "p" /\ enPassantTarget # NoSquare /\ toR = enPassantTarget.r
          /\ toC = enPassantTarget.c /\ target = Null
       THEN [moved EXCEPT ![fromR][toC] = Null]
       ELSE moved

isValidMove(fromR, fromC, toR, toC, board, currentPlayer, enPassantTarget, castlingRights, activeSpells, currentPly) ==
    LET moving == board[fromR][fromC]
        target == board[toR][toC]
        t == toLowerCase(moving.type)
    IN IF moving = Null \/ moving.color # currentPlayer THEN FALSE
       ELSE IF MoverFrozen(moving, fromR, fromC, activeSpells, currentPly) THEN FALSE
       ELSE IF fromR = toR /\ fromC = toC THEN FALSE
       ELSE IF target # Null /\ target.color = moving.color THEN FALSE
       ELSE IF t = "k" /\ Abs(toC - fromC) = 2 /\ fromR = toR
       THEN checkCastleConditions(fromR, fromC, toR, toC, board, currentPlayer,
                                  castlingRights, activeSpells, currentPly, enPassantTarget)
       ELSE IF ~GeometryValid(t, moving, target, fromR, fromC, toR, toC, board, enPassantTarget)
       THEN FALSE
       ELSE IF target # Null /\ toLowerCase(target.type) = "k" THEN TRUE
       ELSE \E tmp \in {SimulatedBoard(board, t, target, fromR, fromC, toR, toC,
                                        enPassantTarget)} :
            \E kingPos \in {FindType(tmp, KingType(currentPlayer))} :
               IF kingPos = NoSquare THEN TRUE
               ELSE ~isSquareAttacked(kingPos.r, kingPos.c, Opponent(currentPlayer), tmp,
                                      NoSquare, activeSpells, currentPly)

\* the destinations, as a set of <<toR, toC>>
getValidMovesForPiece(r, c, state) ==
    { to \in Idx \X Idx :
        isValidMove(r, c, to[1], to[2], state.board, state.currentPlayer,
                    state.enPassantTarget, state.castlingRights,
                    state.activeSpells, state.plyCount) }

\* step 1 of hasLegalMoves: a standard legal move exists
HasStandardMove(playerColor, state) ==
    \E r \in Idx, c \in Idx :
        /\ state.board[r][c] # Null
        /\ state.board[r][c].color = playerColor
        /\ ~(state.board[r][c].isFrozen
             \/ isSquareUnderActiveFreeze(r, c, state.activeSpells, state.plyCount))
        /\ \E toR \in Idx, toC \in Idx :
              isValidMove(r, c, toR, toC, state.board, playerColor, state.enPassantTarget,
                          state.castlingRights, state.activeSpells, state.plyCount)

\* the jump branch of hasLegalMoves
JumpEscape(playerColor, state) ==
    LET board == state.board
    IN \E kingPos \in {FindType(board, KingType(playerColor))} :
       IF kingPos = NoSquare THEN TRUE
       ELSE \E attackers \in {getAttackers(kingPos.r, kingPos.c, Opponent(playerColor),
                                            board, state.enPassantTarget,
                                            state.activeSpells, state.plyCount)} :
            IF Cardinality(attackers) > 1 THEN FALSE
            ELSE IF Cardinality(attackers) = 1
            THEN \E attacker \in attackers :
                 \E jr \in Idx, jc \in Idx :
                   /\ board[jr][jc] # Null
                   /\ \E tmp \in {[board EXCEPT ![jr][jc].isJumpable = TRUE]} :
                        \E mr \in Idx, mc \in Idx :
                          /\ tmp[mr][mc] # Null
                          /\ tmp[mr][mc].color = playerColor
                          /\ isValidMove(mr, mc, attacker[1], attacker[2], tmp, playerColor,
                                         state.enPassantTarget, state.castlingRights,
                                         state.activeSpells, state.plyCount)
            ELSE FALSE

\* hasLegalMoves without the rule that an available freeze is an escape
hasLegalMovesSearchOnly(playerColor, state) ==
    LET ps == state.spells[playerColor]
        canJump == ps.jump > 0
                   /\ (ps.jumpLastUsedTurn = 0
                       \/ state.gameTurnNumber >= ps.jumpLastUsedTurn + SPELL_COOLDOWN_TURNS)
    IN IF HasStandardMove(playerColor, state) THEN TRUE
       ELSE IF ~isKingInCheck(playerColor, state.board, state.enPassantTarget,
                              state.activeSpells, state.plyCount) THEN FALSE
       ELSE IF ~canJump THEN FALSE
       ELSE JumpEscape(playerColor, state)

\* hasLegalMoves with the spell escapes open to a player who is not in check
hasLegalMovesSpellsFirst(playerColor, state) ==
    LET ps == state.spells[playerColor]
        canFreeze == ps.freeze > 0
                     /\ (ps.freezeLastUsedTurn = 0
                         \/ state.gameTurnNumber >= ps.freezeLastUsedTurn + SPELL_COOLDOWN_TURNS)
        canJump == ps.jump > 0
                   /\ (ps.jumpLastUsedTurn = 0
                       \/ state.gameTurnNumber >= ps.jumpLastUsedTurn + SPELL_COOLDOWN_TURNS)
    IN IF HasStandardMove(playerColor, state) THEN TRUE
       ELSE IF ~canFreeze /\ ~canJump THEN FALSE
       ELSE IF canFreeze THEN TRUE
       ELSE JumpEscape(playerColor, state)

hasLegalMoves(playerColor, state) ==
    LET ps == state.spells[playerColor]
        canFreeze == ps.freeze > 0
                     /\ (ps.freezeLastUsedTurn = 0
                         \/ state.gameTurnNumber >= ps.freezeLastUsedTurn + SPELL_COOLDOWN_TURNS)
        canJump == ps.jump > 0
                   /\ (ps.jumpLastUsedTurn = 0
                       \/ state.gameTurnNumber >= ps.jumpLastUsedTurn + SPELL_COOLDOWN_TURNS)
    IN IF HasStandardMove(playerColor, state) THEN TRUE
       ELSE IF ~isKingInCheck(playerColor, state.board, state.enPassantTarget,
                              state.activeSpells, state.plyCount) THEN FALSE
       ELSE IF ~canFreeze /\ ~canJump THEN FALSE
       ELSE IF canFreeze THEN TRUE
       ELSE JumpEscape(playerColor, state)

----------------------------------------------------------------------------
(* Move notation *)

\* the squares of the competing pieces of generateMoveNotation
Competitors(state, piece, fromR, fromC, toR, toC) ==
    { rc \in Idx \X Idx :
        /\ ~(rc[1] = fromR /\ rc[2] = fromC)
        /\ state.board[rc[1]][rc[2]] # Null
        /\ state.board[rc[1]][rc[2]].color = piece.color
        /\ state.board[rc[1]][rc[2]].type = piece.type
        /\ isValidMove(rc[1], rc[2], toR, toC, state.board, state.currentPlayer,
                       state.enPassantTarget, state.castlingRights,
                       state.activeSpells, state.plyCount) }

generateMoveNotation(state, piece, fromR, fromC, toR, toC, capturedPiece, isEnPassant) ==
    LET pieceTypeUpper == toUpperCase(piece.type)
        toAlg == algebraicFromCoords(toR, toC)
        competitors == Competitors(state, piece, fromR, fromC, toR, toC)
        fromFile == FileChars[fromC + 1]
        fromRank == DigitChars[(8 - fromR) + 1]
        sameFile == \E p \in competitors : p[2] = fromC
        sameRank == \E p \in competitors : p[1] = fromR
        disamb == IF competitors = {} THEN <<>>
                  ELSE IF sameFile /\ sameRank THEN <<fromFile, fromRank>>
                  ELSE IF sameFile THEN <<fromRank>>
                  ELSE <<fromFile>>
    IN IF pieceTypeUpper = "P"
       THEN IF capturedPiece # Null \/ isEnPassant
            THEN <<fromFile, "x">> \o toAlg
            ELSE toAlg
       ELSE <<pieceTypeUpper>> \o disamb
            \o (IF capturedPiece # Null THEN <<"x">> ELSE <<>>) \o toAlg

----------------------------------------------------------------------------
(* Apply spell *)

Failure(msg) == [success |-> FALSE, error |-> msg]

\* the ids of the occupants of the 3x3 around the target, in scan order
AffectedPieceIds(board, targetR, targetC) ==
    LET Cells == << <<-1,-1>>, <<-1,0>>, <<-1,1>>, <<0,-1>>, <<0,0>>, <<0,1>>,
                    <<1,-1>>, <<1,0>>, <<1,1>> >>
        OnBoard(d) == targetR + d[1] \in Idx /\ targetC + d[2] \in Idx
        Occupied(d) == OnBoard(d) /\ board[targetR + d[1]][targetC + d[2]] # Null
        kept == SelectSeq(Cells, Occupied)
    IN [i \in 1..Len(kept) |-> board[targetR + kept[i][1]][targetC + kept[i][2]].id]

\* a cast that marks a freeze with the ply instead of the turn
applySpellMarksPly(state, spellType, targetR, targetC) ==
    LET player == state.currentPlayer
        targetPiece == state.board[targetR][targetC]
    IN IF ~canCastSpell(state, spellType)
       THEN Failure("Cannot cast " \o spellType \o " spell right now.")
       ELSE IF spellType = "jump"
       THEN IF targetPiece = Null THEN Failure("Jump must target a piece.")
            ELSE [success |-> TRUE,
                  state |-> [state EXCEPT
                      !.spells[player].jump = @ - 1,
                      !.spells[player].jumpLastUsedTurn = state.gameTurnNumber,
                      !.activeSpells = Append(@, [type |-> "jump",
                                                  targetId |-> targetPiece.id,
                                                  targetSquare |-> NoSquare,
                                                  affectedPieceIds |-> <<>>,
                                                  expiresAtPly |-> state.plyCount + SpellLifetimePlies]),
                      !.board[targetR][targetC].isJumpable = TRUE],
                  notation |-> Str_jump \o <<"@">> \o algebraicFromCoords(targetR, targetC)]
       ELSE [success |-> TRUE,
             state |-> [state EXCEPT
                 !.spells[player].freeze = @ - 1,
                 !.spells[player].freezeLastUsedTurn = state.plyCount + 1,
                 !.activeSpells = Append(@, [type |-> "freeze",
                                             targetId |-> <<>>,
                                             targetSquare |-> [r |-> targetR, c |-> targetC],
                                             affectedPieceIds |->
                                                 AffectedPieceIds(state.board, targetR, targetC),
                                             expiresAtPly |-> state.plyCount + SpellLifetimePlies])],
             notation |-> Str_freeze \o <<"@">> \o algebraicFromCoords(targetR, targetC)]

applySpell(state, spellType, targetR, targetC) ==
    LET player == state.currentPlayer
        targetPiece == state.board[targetR][targetC]
    IN IF ~canCastSpell(state, spellType)
       THEN Failure("Cannot cast " \o spellType \o " spell right now.")
       ELSE IF spellType = "jump"
       THEN IF targetPiece = Null THEN Failure("Jump must target a piece.")
            ELSE [success |-> TRUE,
                  state |-> [state EXCEPT
                      !.spells[player].jump = @ - 1,
                      !.spells[player].jumpLastUsedTurn = state.gameTurnNumber,
                      !.activeSpells = Append(@, [type |-> "jump",
                                                  targetId |-> targetPiece.id,
                                                  targetSquare |-> NoSquare,
                                                  affectedPieceIds |-> <<>>,
                                                  expiresAtPly |-> state.plyCount + SpellLifetimePlies]),
                      !.board[targetR][targetC].isJumpable = TRUE],
                  notation |-> Str_jump \o <<"@">> \o algebraicFromCoords(targetR, targetC)]
       ELSE [success |-> TRUE,
             state |-> [state EXCEPT
                 !.spells[player].freeze = @ - 1,
                 !.spells[player].freezeLastUsedTurn = state.gameTurnNumber,
                 !.activeSpells = Append(@, [type |-> "freeze",
                                             targetId |-> <<>>,
                                             targetSquare |-> [r |-> targetR, c |-> targetC],
                                             affectedPieceIds |->
                                                 AffectedPieceIds(state.board, targetR, targetC),
                                             expiresAtPly |-> state.plyCount + SpellLifetimePlies])],
             notation |-> Str_freeze \o <<"@">> \o algebraicFromCoords(targetR, targetC)]

----------------------------------------------------------------------------
(* Turn executor *)

RECURSIVE JoinChars(_)
JoinChars(s) == IF s = <<>> THEN "" ELSE s[1] \o JoinChars(Tail(s))

\* promotionPiece.toUpperCase() / toLowerCase(), character by character
UpperSeq(s) == [i \in 1..Len(s) |-> toUpperCase(s[i])]
LowerSeq(s) == [i \in 1..Len(s) |-> toLowerCase(s[i])]

\* the type a promoted piece gets
PromotedType(color, promotionPiece) ==
    IF color = "white" THEN JoinChars(UpperSeq(promotionPiece))
    ELSE JoinChars(LowerSeq(promotionPiece))

\* the compact tokens of a half-move
CompactActions(moveNotation, fromR, fromC, toR, toC, spellNotation) ==
    LET spellTok == IF spellNotation # <<>>
                    THEN LET parts == SplitParts(spellNotation, "@")
                         IN << SubSeq(parts[1], 1, 1) \o <<"@">> \o parts[2] >>
                    ELSE <<>>
        base == algebraicFromCoords(fromR, fromC) \o <<"-">> \o algebraicFromCoords(toR, toC)
        compactMove == IF Includes(moveNotation, "=")
                       THEN base \o <<"=">> \o SubSeq(SplitParts(moveNotation, "=")[2], 1, 1)
                       ELSE base
    IN spellTok \o << compactMove >>

\* the game-end verdict of _finalizeMove on the state after plyCount++ and
\* updateActiveSpells: <<isGameOver, gameEndMessage, checkSymbol>>
GameEndVerdict(ns, playerWhoMoved) ==
    LET opp == Opponent(playerWhoMoved)
        oppKingOnBoard == \E r \in Idx, c \in Idx : ns.board[r][c].type = KingType(opp)
    IN With(oppKingOnBoard
            /\ isKingInCheck(opp, ns.board, ns.enPassantTarget, ns.activeSpells, ns.plyCount),
            LAMBDA oppInCheck :
       With(oppKingOnBoard /\ hasLegalMoves(opp, ns), LAMBDA oppHasMoves :
       IF ~oppKingOnBoard
       THEN <<TRUE, Capitalize(playerWhoMoved) \o " wins by king capture!", <<"#">> >>
       ELSE IF oppInCheck /\ ~oppHasMoves
       THEN <<TRUE, Capitalize(playerWhoMoved) \o " wins by checkmate!", <<"#">> >>
       ELSE IF ~oppInCheck /\ ~oppHasMoves
       THEN <<TRUE, "Draw by stalemate.", <<>> >>
       ELSE IF oppInCheck THEN <<ns.isGameOver, "", <<"+">> >>
       ELSE <<ns.isGameOver, "", <<>> >>))

\* the threefold-repetition step at the end of _finalizeMove
CountRepetition(ns, snap) ==
    IF ns.isGameOver THEN ns
    ELSE With(generateStateSignature(snap), LAMBDA sig :
           LET n == RepCount(ns.repetitionCounter, sig) + 1
               counted == [ns EXCEPT !.repetitionCounter = RepSet(@, sig, n)]
           IN IF n >= 3
              THEN [counted EXCEPT !.isGameOver = TRUE,
                                   !.gameEndMessage = "Draw by threefold repetition."]
              ELSE counted)

\* a finalization that passes the turn whatever the verdict
FinalizeFromPassesTurn(ns1, playerWhoMoved, compactActions, moveNotation, movedPiece, fromR, toR, fromC, toC, spellNotation) ==
    With(GameEndVerdict(ns1, playerWhoMoved), LAMBDA verdict :
    LET opp == Opponent(playerWhoMoved)
        enPassant == IF toLowerCase(movedPiece.type) = "p" /\ Abs(fromR - toR) = 2
                     THEN [r |-> (fromR + toR) \div 2, c |-> fromC]
                     ELSE NoSquare
        entry == [turn |-> ns1.gameTurnNumber,
                  player |-> playerWhoMoved,
                  notation |-> (IF spellNotation # <<>> THEN spellNotation \o <<" ">> ELSE <<>>)
                               \o moveNotation \o verdict[3],
                  actions |-> compactActions,
                  plySnapshotIndex |-> Len(ns1.history)]
        ns2 == [ns1 EXCEPT !.isGameOver = verdict[1],
                           !.gameEndMessage = verdict[2],
                           !.enPassantTarget = enPassant,
                           !.moveLog = Append(@, entry)]
        ns3 == IF TRUE
               THEN [ns2 EXCEPT !.gameTurnNumber = IF playerWhoMoved = "black" THEN @ + 1 ELSE @,
                                !.currentPlayer = opp]
               ELSE ns2
    IN With(ns3, LAMBDA ns :
         With([createSnapshot(ns) EXCEPT !.gameEndMessage = verdict[2]], LAMBDA snap :
           With([ns EXCEPT !.history = Append(@, snap)], LAMBDA ns4 :
             [success |-> TRUE, state |-> CountRepetition(ns4, snap),
              awaitingPromotion |-> FALSE]))))

\* a finalization that clears no en passant target
FinalizeFromKeepsTarget(ns1, playerWhoMoved, compactActions, moveNotation, movedPiece, fromR, toR, fromC, toC, spellNotation) ==
    With(GameEndVerdict(ns1, playerWhoMoved), LAMBDA verdict :
    LET opp == Opponent(playerWhoMoved)
        enPassant == IF toLowerCase(movedPiece.type) = "p" /\ Abs(fromR - toR) = 2
                     THEN [r |-> (fromR + toR) \div 2, c |-> fromC]
                     ELSE ns1.enPassantTarget
        entry == [turn |-> ns1.gameTurnNumber,
                  player |-> playerWhoMoved,
                  notation |-> (IF spellNotation # <<>> THEN spellNotation \o <<" ">> ELSE <<>>)
                               \o moveNotation \o verdict[3],
                  actions |-> compactActions,
                  plySnapshotIndex |-> Len(ns1.history)]
        ns2 == [ns1 EXCEPT !.isGameOver = verdict[1],
                           !.gameEndMessage = verdict[2],
                           !.enPassantTarget = enPassant,
                           !.moveLog = Append(@, entry)]
        ns3 == IF ~ns2.isGameOver
               THEN [ns2 EXCEPT !.gameTurnNumber = IF playerWhoMoved = "black" THEN @ + 1 ELSE @,
                                !.currentPlayer = opp]
               ELSE ns2
    IN With(ns3, LAMBDA ns :
         With([createSnapshot(ns) EXCEPT !.gameEndMessage = verdict[2]], LAMBDA snap :
           With([ns EXCEPT !.history = Append(@, snap)], LAMBDA ns4 :
             [success |-> TRUE, state |-> CountRepetition(ns4, snap),
              awaitingPromotion |-> FALSE]))))

\* _finalizeMove from the game-end detection on: ns1 is the state after
\* plyCount++ and updateActiveSpells
FinalizeFrom(ns1, playerWhoMoved, compactActions, moveNotation, movedPiece, fromR, toR, fromC, toC, spellNotation) ==
    With(GameEndVerdict(ns1, playerWhoMoved), LAMBDA verdict :
    LET opp == Opponent(playerWhoMoved)
        enPassant == IF toLowerCase(movedPiece.type) = "p" /\ Abs(fromR - toR) = 2
                     THEN [r |-> (fromR + toR) \div 2, c |-> fromC]
                     ELSE NoSquare
        entry == [turn |-> ns1.gameTurnNumber,
                  player |-> playerWhoMoved,
                  notation |-> (IF spellNotation # <<>> THEN spellNotation \o <<" ">> ELSE <<>>)
                               \o moveNotation \o verdict[3],
                  actions |-> compactActions,
                  plySnapshotIndex |-> Len(ns1.history)]
        ns2 == [ns1 EXCEPT !.isGameOver = verdict[1],
                           !.gameEndMessage = verdict[2],
                           !.enPassantTarget = enPassant,
                           !.moveLog = Append(@, entry)]
        ns3 == IF ~ns2.isGameOver
               THEN [ns2 EXCEPT !.gameTurnNumber = IF playerWhoMoved = "black" THEN @ + 1 ELSE @,
                                !.currentPlayer = opp]
               ELSE ns2
    IN With(ns3, LAMBDA ns :
         With([createSnapshot(ns) EXCEPT !.gameEndMessage = verdict[2]], LAMBDA snap :
           With([ns EXCEPT !.history = Append(@, snap)], LAMBDA ns4 :
             [success |-> TRUE, state |-> CountRepetition(ns4, snap),
              awaitingPromotion |-> FALSE]))))

finalizeMove(ns0, moveNotation, movedPiece, fromR, toR, fromC, toC, spellNotation) ==
    With(ns0, LAMBDA ns :
      With(updateActiveSpells([ns EXCEPT !.plyCount = @ + 1]), LAMBDA ns1 :
        With(moveNotation, LAMBDA notation :
          FinalizeFrom(ns1, ns.currentPlayer,
                       CompactActions(notation, fromR, fromC, toR, toC, spellNotation),
                       notation, movedPiece, fromR, toR, fromC, toC, spellNotation))))


\* castling: the rook's relocation
RelocateRook(board, fromR, fromC, toC) ==
    LET rookFromC == IF toC > fromC THEN 7 ELSE 0
        rookToC == IF toC > fromC THEN toC - 1 ELSE toC + 1
        rook == board[fromR][rookFromC]
    IN IF rook # Null
       THEN [board EXCEPT ![fromR][rookToC] = [rook EXCEPT !.hasMoved = TRUE],
                          ![fromR][rookFromC] = Null]
       ELSE board

\* rights that only a king move clears
UpdatedCastlingRightsKingOnly(rights, moved, fromR, fromC) ==
    IF toLowerCase(moved.type) = "k"
    THEN IF moved.color = "white"
         THEN [rights EXCEPT !.white.K = FALSE, !.white.Q = FALSE]
         ELSE [rights EXCEPT !.black.k = FALSE, !.black.q = FALSE]
    ELSE rights

\* the castling rights after the move of `moved` from (fromR, fromC)
UpdatedCastlingRights(rights, moved, fromR, fromC) ==
    IF toLowerCase(moved.type) = "k"
    THEN IF moved.color = "white"
         THEN [rights EXCEPT !.white.K = FALSE, !.white.Q = FALSE]
         ELSE [rights EXCEPT !.black.k = FALSE, !.black.q = FALSE]
    ELSE IF toLowerCase(moved.type) = "r"
    THEN IF moved.color = "white"
         THEN [rights EXCEPT
                 !.white.Q = IF fromR = 7 /\ fromC = 0 THEN FALSE ELSE @,
                 !.white.K = IF fromR = 7 /\ fromC = 7 THEN FALSE ELSE @]
         ELSE [rights EXCEPT
                 !.black.q = IF fromR = 0 /\ fromC = 0 THEN FALSE ELSE @,
                 !.black.k = IF fromR = 0 /\ fromC = 7 THEN FALSE ELSE @]
    ELSE rights

\* promotionPiece <<>> stands for undefined (and for the empty string, falsy too)
applyMove(state, fromR, fromC, toR, toC, spellNotation, promotionPiece) ==
    IF ~isValidMove(fromR, fromC, toR, toC, state.board, state.currentPlayer,
                    state.enPassantTarget, state.castlingRights,
                    state.activeSpells, state.plyCount)
    THEN Failure("Invalid move.")
    ELSE
    LET movingPiece == state.board[fromR][fromC]
        capturedPiece == state.board[toR][toC]
        isCastle == toLowerCase(movingPiece.type) = "k" /\ Abs(fromC - toC) = 2
        isEnPassant == /\ toLowerCase(movingPiece.type) = "p"
                       /\ Abs(fromC - toC) = 1
                       /\ state.board[toR][toC] = Null
                       /\ state.enPassantTarget # NoSquare
                       /\ toR = state.enPassantTarget.r
                       /\ toC = state.enPassantTarget.c
        moved == [movingPiece EXCEPT !.hasMoved = TRUE]
        promotes == ~isCastle /\ toLowerCase(movingPiece.type) = "p" /\ (toR = 0 \/ toR = 7)
    IN With(IF isCastle THEN RelocateRook(state.board, fromR, fromC, toC) ELSE state.board, LAMBDA b1 :
       With(IF isEnPassant THEN [b1 EXCEPT ![fromR][toC] = Null] ELSE b1, LAMBDA b2 :
       With([state EXCEPT !.board = [b2 EXCEPT ![toR][toC] = moved, ![fromR][fromC] = Null],
                          !.castlingRights = UpdatedCastlingRights(state.castlingRights, moved, fromR, fromC)], LAMBDA ns :
       With(IF isEnPassant
                     THEN generateMoveNotation(state, movingPiece, fromR, fromC, toR, toC,
                                               state.board[fromR][toC], TRUE)
                     ELSE IF isCastle
                     THEN (IF toC > fromC THEN <<"O","-","O">> ELSE <<"O","-","O","-","O">>)
                     ELSE generateMoveNotation(state, movingPiece, fromR, fromC, toR, toC,
                                               capturedPiece, FALSE), LAMBDA notation0 :
       IF promotes /\ promotionPiece = <<>>
       THEN [success |-> TRUE,
                state |-> [ns EXCEPT !.awaitingPromotion = [r |-> toR, c |-> toC, color |-> moved.color,
                        originalMoveNotation |-> notation0, movingPiece |-> moved,
                        fromR |-> fromR, fromC |-> fromC]],
                awaitingPromotion |-> TRUE]
       ELSE IF promotes
       THEN finalizeMove([ns EXCEPT !.board[toR][toC].type = PromotedType(moved.color, promotionPiece)],
                         notation0 \o <<"=">> \o UpperSeq(promotionPiece),
                         [moved EXCEPT !.type = PromotedType(moved.color, promotionPiece)], fromR, toR, fromC, toC, spellNotation)
       ELSE finalizeMove(ns, notation0, moved, fromR, toR, fromC, toC, spellNotation)))))

\* a promotion that leaves awaitingPromotion set
applyPromotionKeepsPending(state, promotionPiece, spellNotation) ==
    IF state.awaitingPromotion = NoPromotion
    THEN Failure("No promotion pending.")
    ELSE LET promo == state.awaitingPromotion
             pieceType == PromotedType(promo.color, promotionPiece)
         IN With([state EXCEPT !.board[promo.r][promo.c].type = pieceType],
                 LAMBDA ns :
                   finalizeMove(ns, promo.originalMoveNotation \o <<"=">>
                                    \o UpperSeq(promotionPiece),
                                ns.board[promo.r][promo.c],
                                promo.fromR, promo.r, promo.fromC, promo.c, spellNotation))

applyPromotion(state, promotionPiece, spellNotation) ==
    IF state.awaitingPromotion = NoPromotion
    THEN Failure("No promotion pending.")
    ELSE LET promo == state.awaitingPromotion
             pieceType == PromotedType(promo.color, promotionPiece)
         IN With([state EXCEPT !.board[promo.r][promo.c].type = pieceType,
                               !.awaitingPromotion = NoPromotion],
                 LAMBDA ns :
                   finalizeMove(ns, promo.originalMoveNotation \o <<"=">>
                                    \o UpperSeq(promotionPiece),
                                ns.board[promo.r][promo.c],
                                promo.fromR, promo.r, promo.fromC, promo.c, spellNotation))

\* a resignation that logs its entry without taking a snapshot
applyResignNoSnapshot(state) ==
    [state EXCEPT !.isGameOver = TRUE,
                  !.moveLog = Append(@, [turn |-> state.gameTurnNumber,
                                         player |-> state.currentPlayer,
                                         notation |-> <<"R">>, actions |-> << <<"R">> >>,
                                         plySnapshotIndex |-> Len(state.history)])]

\* a resignation that hands the turn to the opponent
applyResignPassesTurn(state) ==
    LET player == state.currentPlayer
        winner == IF player = "white" THEN "Black" ELSE "White"
        message == Capitalize(player) \o " resigned. " \o winner \o " wins."
        entry == [turn |-> state.gameTurnNumber, player |-> player,
                  notation |-> <<"R">>, actions |-> << <<"R">> >>,
                  plySnapshotIndex |-> Len(state.history)]
    IN With([state EXCEPT !.isGameOver = TRUE, !.gameEndMessage = message,
                          !.moveLog = Append(@, entry)],
            LAMBDA ns : [ns EXCEPT !.history = Append(@, createSnapshot(ns)),
                                  !.currentPlayer = Opponent(player)])

applyResign(state) ==
    LET player == state.currentPlayer
        winner == IF player = "white" THEN "Black" ELSE "White"
        message == Capitalize(player) \o " resigned. " \o winner \o " wins."
        entry == [turn |-> state.gameTurnNumber, player |-> player,
                  notation |-> <<"R">>, actions |-> << <<"R">> >>,
                  plySnapshotIndex |-> Len(state.history)]
    IN With([state EXCEPT !.isGameOver = TRUE, !.gameEndMessage = message,
                          !.moveLog = Append(@, entry)],
            LAMBDA ns : [ns EXCEPT !.history = Append(@, createSnapshot(ns))])

----------------------------------------------------------------------------
(* Object identity: which GameState object a call writes to *)

\* The heap is a sequence of GameState objects and a reference is a position
\* in it. A call receives the reference `state`; every write of its body goes
\* to the object its local `ns` refers to.

\* a copy that hands back the object it was given
deepCopyStateShared(heap, ref) == [heap |-> heap, ref |-> ref]

\* JSON.parse(JSON.stringify(s)): a fresh object with the same content
deepCopyState(heap, ref) == [heap |-> Append(heap, heap[ref]), ref |-> Len(heap) + 1]

Returned(heap, result) == [heap |-> heap, result |-> result]

\* applySpell: the cooldown test returns before the copy; the charges, the
\* activeSpells entry and the isJumpable flag are written through ns
applySpellOn(heap, state, spellType, targetR, targetC) ==
    With(applySpell(heap[state], spellType, targetR, targetC), LAMBDA result :
      IF ~canCastSpell(heap[state], spellType) THEN Returned(heap, result)
      ELSE With(deepCopyState(heap, state), LAMBDA ns :
             IF result.success
             THEN Returned([ns.heap EXCEPT ![ns.ref] = result.state], result)
             ELSE Returned(ns.heap, result)))

\* applyMove: the validity test and the notation read `state`; the board,
\* castling rights, promotion and _finalizeMove write through ns
applyMoveOn(heap, state, fromR, fromC, toR, toC, spellNotation, promotionPiece) ==
    With(applyMove(heap[state], fromR, fromC, toR, toC, spellNotation, promotionPiece), LAMBDA result :
      IF ~result.success THEN Returned(heap, result)
      ELSE With(deepCopyState(heap, state), LAMBDA ns :
             Returned([ns.heap EXCEPT ![ns.ref] = result.state], result)))

\* applyPromotion: the pending test returns before the copy
applyPromotionOn(heap, state, promotionPiece, spellNotation) ==
    With(applyPromotion(heap[state], promotionPiece, spellNotation), LAMBDA result :
      IF ~result.success THEN Returned(heap, result)
      ELSE With(deepCopyState(heap, state), LAMBDA ns :
             Returned([ns.heap EXCEPT ![ns.ref] = result.state], result)))

\* applyResign: copies first, then writes the verdict, the entry and the snapshot
applyResignOn(heap, state) ==
    With(applyResign(heap[state]), LAMBDA resigned :
      With(deepCopyState(heap, state), LAMBDA ns :
        Returned([ns.heap EXCEPT ![ns.ref] = resigned], resigned)))

----------------------------------------------------------------------------
(* Replay driver *)

\* One iteration of the loop of replayCompactActions on a state that is not
\* game over: [ok, state, pending]; ok = FALSE stands for the thrown Error.
ReplayToken(state, pending, action) ==
    IF UpperSeq(action) = <<"R">>
    THEN [ok |-> TRUE, state |-> applyResign(state), pending |-> pending]
    ELSE IF Includes(action, "@")
    THEN LET parts == SplitParts(action, "@")
             prefix == parts[1]
             spellType == IF prefix = <<"j">> \/ prefix = Str_jump THEN "jump" ELSE "freeze"
             coords == parseAlgebraicToCoords(parts[2])
         IN IF coords = NoSquare THEN [ok |-> FALSE, state |-> state, pending |-> pending]
            ELSE With(applySpell(state, spellType, coords.r, coords.c), LAMBDA result :
                   IF ~result.success
                   THEN [ok |-> FALSE, state |-> state, pending |-> pending]
                   ELSE [ok |-> TRUE, state |-> result.state, pending |-> result.notation])
    ELSE LET parts == SplitParts(action, "-")
             fromAlg == parts[1]
             hasTo == Len(parts) >= 2
             toAndPromo == IF hasTo THEN parts[2] ELSE <<>>
             toAlg == Substring02(toAndPromo)
             from == parseAlgebraicToCoords(fromAlg)
             to == parseAlgebraicToCoords(toAlg)
             promotionPiece == IF Includes(toAndPromo, "=")
                               THEN SplitParts(toAndPromo, "=")[2] ELSE <<>>
         IN IF ~hasTo \/ from = NoSquare \/ to = NoSquare
            THEN [ok |-> FALSE, state |-> state, pending |-> pending]
            ELSE With(applyMove(state, from.r, from.c, to.r, to.c, pending, promotionPiece),
                      LAMBDA result :
                   IF ~result.success
                   THEN [ok |-> FALSE, state |-> state, pending |-> pending]
                   ELSE IF result.awaitingPromotion
                   THEN [ok |-> FALSE, state |-> state, pending |-> pending]
                   ELSE [ok |-> TRUE, state |-> result.state, pending |-> <<>>])

\* the loop from position i on: [ok, state]
RECURSIVE ReplayFrom(_, _, _)
ReplayFrom(state, pending, actions) ==
    IF actions = <<>> \/ state.isGameOver THEN [ok |-> TRUE, state |-> state]
    ELSE With(ReplayToken(state, pending, Head(actions)), LAMBDA step :
           IF ~step.ok THEN [ok |-> FALSE, state |-> state]
           ELSE ReplayFrom(step.state, step.pending, Tail(actions)))

replayCompactActions(actions, seq) ==
    With(createInitialGameState(seq), LAMBDA s0 :
      With(actions, LAMBDA tokens : ReplayFrom(s0, <<>>, tokens)))

\* the flat token list that buildCompactActionLog joins with ","
FlatActions(moveLog) ==
    LET RECURSIVE Flat(_)
        Flat(n) == IF n = 0 THEN <<>> ELSE Flat(n - 1) \o moveLog[n].actions
    IN Flat(Len(moveLog))

RECURSIVE JoinTokens(_)
JoinTokens(tokens) ==
    IF tokens = <<>> THEN <<>>
    ELSE IF Len(tokens) = 1 THEN tokens[1]
    ELSE tokens[1] \o <<",">> \o JoinTokens(Tail(tokens))

buildCompactActionLog(moveLog) == JoinTokens(FlatActions(moveLog))


\* compact_action_log.split(",").filter(Boolean)
TokensOf(log) ==
    IF log = <<>> THEN <<>>
    ELSE SelectSeq(SplitParts(log, ","), LAMBDA t : t # <<>>)

----------------------------------------------------------------------------
(* Inputs *)

MaxPly == 2

Mv(f1, r1, f2, r2) == <<f1, r1, "-", f2, r2>>

\* logs the caller may have loaded before it plays on
Openings ==
    { <<>>,
      << Mv("f","2","f","4"), Mv("e","7","e","6"), Mv("a","2","a","3") >>,
      << Mv("e","2","e","4"), Mv("e","7","e","5"), Mv("g","1","f","3"),
         Mv("g","8","f","6"), Mv("f","1","c","4"), Mv("f","8","c","5") >>,
      << Mv("e","2","e","4"), Mv("e","7","e","5"), Mv("f","1","c","4"),
         Mv("b","8","c","6"), Mv("d","1","h","5"), Mv("g","8","f","6") >>,
      << Mv("h","2","h","4"), Mv("g","7","g","5"), Mv("h","4","g","5"),
         Mv("a","7","a","6"), Mv("g","5","g","6"), Mv("a","6","a","5"),
         Mv("g","6","h","7"), Mv("a","5","a","4") >>,
      << Mv("g","1","f","3"), Mv("g","8","f","6"), Mv("f","3","g","1"),
         Mv("f","6","g","8"), Mv("g","1","f","3"), Mv("g","8","f","6"),
         Mv("f","3","g","1") >>,
      << Mv("e","2","e","4"), Mv("h","7","h","6"), Mv("e","4","e","5"),
         Mv("h","6","h","5"), Mv("e","5","e","6"), Mv("h","5","h","4"),
         <<"f","@","c","8">>, Mv("e","6","d","7") >>,
      << <<"R">> >> }

\* the moves a caller submits: <<from, to, promotionPiece>>, the squares in
\* algebraic form and <<>> for a call without promotionPiece
Sq(f, r) == <<f, r>>

MovePool ==
    { <<Sq("e","2"), Sq("e","4"), <<>>>>, <<Sq("e","7"), Sq("e","5"), <<>>>>,
      <<Sq("g","1"), Sq("f","3"), <<>>>>, <<Sq("e","1"), Sq("e","2"), <<>>>>,
      <<Sq("e","1"), Sq("g","1"), <<>>>>, <<Sq("d","8"), Sq("h","4"), <<>>>>,
      <<Sq("a","3"), Sq("a","4"), <<>>>>, <<Sq("h","5"), Sq("f","7"), <<>>>>,
      <<Sq("f","6"), Sq("g","8"), <<>>>>, <<Sq("a","7"), Sq("a","6"), <<>>>>,
      <<Sq("h","4"), Sq("e","1"), <<>>>>, <<Sq("e","2"), Sq("e","5"), <<>>>>,
      <<Sq("h","7"), Sq("g","8"), <<>>>>, <<Sq("h","7"), Sq("g","8"), <<"Q">>>>,
      <<Sq("e","2"), Sq("e","4"), <<"n">>>>, <<Sq("d","7"), Sq("e","8"), <<>>>>,
      <<Sq("f","3"), Sq("g","1"), <<>>>> }

\* the spells a caller casts
SpellPool ==
    { <<"jump", <<"e","2">> >>, <<"freeze", <<"e","2">> >>,
      <<"freeze", <<"h","1">> >>, <<"freeze", <<"h","4">> >> }

PromotionPool == { <<"Q">>, <<"n">> }

----------------------------------------------------------------------------
(* The engine under a caller that holds one state *)

NoRow == [compact_action_log |-> <<>>]

Init ==
    /\ \E log \in Openings :
          \E loaded \in {replayCompactActions(log, 0).state} :
             /\ gs = loaded
             /\ loadedLen = Len(loaded.moveLog)
    /\ pendingSpellNotation = <<>>
    /\ lastCall = "load"
    /\ todo = <<>>
    /\ rstatus = "idle"
    /\ pieceIdSeq = 32
    /\ row = NoRow
    /\ handlers = <<>>
    /\ compactLog = <<>>
    /\ ui = DEFAULT_UI
    /\ channel = <<>>

Budget == Len(gs.moveLog) < loadedLen + MaxPly

CastSpell ==
    /\ Budget
    /\ \E sp \in SpellPool :
          LET sq == parseAlgebraicToCoords(sp[2])
          IN \E result \in {applySpell(gs, sp[1], sq.r, sq.c)} :
             IF result.success
             THEN /\ gs' = result.state
                  /\ pendingSpellNotation' = result.notation
                  /\ lastCall' = "spell"
             ELSE UNCHANGED <<gs, pendingSpellNotation, lastCall>>
    /\ UNCHANGED <<compactLog, ui, channel, todo, rstatus, pieceIdSeq, loadedLen, row, handlers>>

MakeMove ==
    /\ Budget
    /\ \E mv \in MovePool :
          LET from == parseAlgebraicToCoords(mv[1])
              to == parseAlgebraicToCoords(mv[2])
          IN \E result \in {applyMove(gs, from.r, from.c, to.r, to.c,
                                       pendingSpellNotation, mv[3])} :
             IF ~result.success
             THEN UNCHANGED <<gs, pendingSpellNotation, lastCall>>
             ELSE IF result.awaitingPromotion
             THEN /\ gs' = result.state
                  /\ lastCall' = "awaiting"
                  /\ UNCHANGED pendingSpellNotation
             ELSE /\ gs' = result.state
                  /\ pendingSpellNotation' = <<>>
                  /\ lastCall' = "move"
    /\ UNCHANGED <<compactLog, ui, channel, todo, rstatus, pieceIdSeq, loadedLen, row, handlers>>

Promote ==
    /\ Budget
    /\ \E promo \in PromotionPool :
          \E result \in {applyPromotion(gs, promo, pendingSpellNotation)} :
             IF ~result.success
             THEN UNCHANGED <<gs, pendingSpellNotation, lastCall>>
             ELSE /\ gs' = result.state
                  /\ pendingSpellNotation' = <<>>
                  /\ lastCall' = "promotion"
    /\ UNCHANGED <<compactLog, ui, channel, todo, rstatus, pieceIdSeq, loadedLen, row, handlers>>

Resign ==
    /\ Budget
    /\ gs' = applyResign(gs)
    /\ lastCall' = "resign"
    /\ UNCHANGED <<compactLog, ui, channel, pendingSpellNotation, todo, rstatus, pieceIdSeq, loadedLen, row, handlers>>

Next == CastSpell \/ MakeMove \/ Promote \/ Resign

Spec == Init /\ [][Next]_vars

----------------------------------------------------------------------------
(* The replay driver, one token per step *)

Jm(f, r) == <<"j", "@", f, r>>
Fz(f, r) == <<"f", "@", f, r>>

ReplayLogs ==
    { \* scholar's mate, with a token after it
      << Mv("e","2","e","4"), Mv("e","7","e","5"), Mv("f","1","c","4"),
         Mv("b","8","c","6"), Mv("d","1","h","5"), Mv("g","8","f","6"),
         Mv("h","5","f","7"), Mv("e","8","f","7") >>,
      \* kingside castling
      << Mv("e","2","e","4"), Mv("e","7","e","5"), Mv("g","1","f","3"),
         Mv("g","8","f","6"), Mv("f","1","c","4"), Mv("f","8","c","5"),
         Mv("e","1","g","1") >>,
      \* kingside castling with the rook's corner frozen
      << Mv("e","2","e","4"), Mv("e","7","e","5"), Mv("g","1","f","3"),
         Mv("g","8","f","6"), Mv("f","1","c","4"), Mv("f","8","c","5"),
         Fz("h","1"), Mv("e","1","g","1"), Mv("a","7","a","6") >>,
      \* freeze blocks a knight
      << Mv("g","1","f","3"), Mv("b","8","c","6"), <<"f","r","e","e","z","e","@","c","6">>,
         Mv("f","3","g","5"), Mv("c","6","e","5") >>,
      << Mv("g","1","f","3"), Mv("b","8","c","6"), Fz("c","6"),
         Mv("f","3","g","5"), Mv("a","7","a","6"), Mv("a","2","a","3"),
         Mv("c","6","e","5") >>,
      \* threefold repetition
      << Mv("g","1","f","3"), Mv("g","8","f","6"), Mv("f","3","g","1"),
         Mv("f","6","g","8"), Mv("g","1","f","3"), Mv("g","8","f","6"),
         Mv("f","3","g","1"), Mv("f","6","g","8"), Mv("e","2","e","4") >>,
      \* resign, at once and after a spell
      << <<"R">> >>,
      << Mv("e","2","e","4"), <<"r">>, Mv("e","7","e","5") >>,
      << Jm("e","2"), <<"R">> >>,
      \* two spells before the move
      << Jm("e","2"), Fz("e","7"), Mv("e","2","e","4"), Mv("d","7","d","5") >>,
      << Fz("e","7"), Jm("a","2"), Mv("a","1","a","3") >>,
      << Jm("e","2"), Jm("d","2"), Mv("e","2","e","4") >>,
      \* two jumps on the same piece on consecutive plies
      << Jm("e","2"), Mv("g","1","f","3"), Jm("e","2"), Mv("e","7","e","5"),
         Mv("f","3","g","1"), Mv("e","5","e","4") >>,
      \* a queen that checks from inside her own side's freeze zone
      << Mv("f","2","f","4"), Mv("e","7","e","6"), Mv("a","2","a","3"),
         Fz("h","4"), Mv("d","8","h","4"), Mv("a","3","a","4"), Mv("h","4","e","1") >>,
      \* a king inside a freeze zone
      << Mv("e","2","e","4"), Fz("e","2"), Mv("e","7","e","5"), Mv("e","1","e","2") >>,
      \* a double push through a jumpable piece
      << Mv("g","1","f","3"), Mv("a","7","a","6"), Mv("f","3","e","5"),
         Mv("a","6","a","5"), Mv("e","5","d","3"), Mv("a","5","a","4"),
         Mv("d","3","e","1"), Mv("h","7","h","6") >>,
      \* promotion by capture
      << Mv("h","2","h","4"), Mv("g","7","g","5"), Mv("h","4","g","5"),
         Mv("a","7","a","6"), Mv("g","5","g","6"), Mv("a","6","a","5"),
         Mv("g","6","h","7"), Mv("a","5","a","4"),
         <<"h","7","-","g","8","=","Q">>, Mv("a","4","a","3") >>,
      << Mv("h","2","h","4"), Mv("g","7","g","5"), Mv("h","4","g","5"),
         Mv("a","7","a","6"), Mv("g","5","g","6"), Mv("a","6","a","5"),
         Mv("g","6","h","7"), Mv("a","5","a","4"), Mv("h","7","g","8") >>,
      \* the same spell again, within the cooldown and after it
      << Jm("e","2"), Mv("e","2","e","4"), Mv("e","7","e","5"), Mv("g","1","f","3"),
         Mv("g","8","f","6"), Mv("f","1","c","4"), Mv("f","8","c","5"),
         Jm("d","2"), Mv("d","2","d","3"), Mv("a","7","a","6") >>,
      << Fz("a","6"), Mv("e","2","e","4"), Fz("a","3"), Mv("e","7","e","5"),
         Mv("g","1","f","3"), Mv("g","8","f","6"), Fz("a","6") >>,
      \* tokens that do not parse or do not validate
      << Mv("e","2","e","5") >>,
      << Mv("e","2","e","4"), <<"e","9","-","e","5">> >>,
      << <<"j","@","e","4">> >>,
      << <<"f","@","z","4">> >>,
      << Mv("e","2","e","4"), <<"e","7","e","5">> >>,
      \* a third jump, the two charges spent and the cooldown over
      << Jm("e","2"), Mv("e","2","e","4"), Mv("e","7","e","5"), Mv("g","1","f","3"),
         Mv("g","8","f","6"), Mv("f","1","c","4"), Mv("f","8","c","5"),
         Jm("d","2"), Mv("d","2","d","3"), Mv("a","7","a","6"),
         Mv("a","2","a","3"), Mv("a","6","a","5"), Mv("a","3","a","4"),
         Mv("h","7","h","6"), Jm("c","4"), Mv("h","2","h","3") >>,
      \* fool's mate at turn 3, white's freeze cast at turn 1 and jump at turn 2
      << Fz("a","3"), Mv("f","2","f","3"), Mv("e","7","e","5"),
         Jm("a","2"), Mv("g","2","g","4"), Mv("a","7","a","6"),
         Mv("a","2","a","3"), Mv("d","8","h","4"), Fz("h","4") >>,
      \* a queen's check that only the h1 rook can answer, through the black
      \* bishop on h3; white's freeze is on cooldown
      << Mv("h","2","h","4"), Mv("d","7","d","6"), Mv("h","4","h","5"),
         Mv("c","8","h","3"), Fz("a","3"), Mv("f","2","f","3"), Mv("e","7","e","5"),
         Mv("g","2","g","4"), Mv("d","8","h","4"), Jm("h","3"), Mv("h","1","h","4") >>,
      \* the ten-move stalemate, both players holding all their spells
      << Mv("e","2","e","3"), Mv("a","7","a","5"), Mv("d","1","h","5"),
         Mv("a","8","a","6"), Mv("h","5","a","5"), Mv("h","7","h","5"),
         Mv("h","2","h","4"), Mv("a","6","h","6"), Mv("a","5","c","7"),
         Mv("f","7","f","6"), Mv("c","7","d","7"), Mv("e","8","f","7"),
         Mv("d","7","b","7"), Mv("d","8","d","3"), Mv("b","7","b","8"),
         Mv("d","3","h","7"), Mv("b","8","c","8"), Mv("f","7","g","6"),
         Mv("c","8","e","6"), Mv("a","2","a","3") >>,
      \* queenside castling while a knight on a3 attacks b1
      << Mv("d","2","d","4"), Mv("b","8","c","6"), Mv("c","1","f","4"),
         Mv("c","6","a","5"), Mv("b","1","c","3"), Mv("a","5","c","4"),
         Mv("d","1","d","3"), Mv("c","4","a","3"), Mv("e","1","c","1") >>,
      \* each rook leaves its starting corner
      << Mv("h","2","h","4"), Mv("a","7","a","5"), Mv("h","1","h","3"),
         Mv("a","8","a","6"), Mv("a","2","a","4"), Mv("h","7","h","5"),
         Mv("a","1","a","3"), Mv("h","8","h","6"), Jm("e","2"), Mv("e","2","e","4") >>,
      \* a double push through a jumpable knight: on the caster's ply, on the
      \* opponent's next ply, and after the jump has expired
      << Mv("g","1","f","3"), Mv("a","7","a","6"), Jm("f","3"), Mv("f","2","f","4"),
         Mv("a","6","a","5") >>,
      << Mv("g","1","f","3"), Mv("g","8","f","6"), Jm("f","6"), Mv("a","2","a","3"),
         Mv("f","7","f","5"), Mv("f","2","f","4") >>,
      << Mv("g","1","f","3"), Mv("a","7","a","6"), Jm("f","3"), Mv("a","2","a","3"),
         Mv("a","6","a","5"), Mv("f","2","f","4") >>,
      \* both players cast a jump on the f3 knight, then white pushes f2-f4
      << Mv("g","1","f","3"), Mv("a","7","a","6"), Jm("f","3"), Mv("a","2","a","3"),
         Jm("f","3"), Mv("a","6","a","5"), Mv("f","2","f","4") >>,
      \* en passant: right after the double push, after a spell cast on the
      \* same ply, and one move too late
      << Mv("e","2","e","4"), Mv("a","7","a","6"), Mv("e","4","e","5"),
         Mv("d","7","d","5"), Mv("e","5","d","6"), Mv("c","7","d","6") >>,
      << Mv("e","2","e","4"), Mv("a","7","a","6"), Mv("e","4","e","5"),
         Mv("d","7","d","5"), Fz("a","3"), Mv("e","5","d","6") >>,
      << Mv("e","2","e","4"), Mv("a","7","a","6"), Mv("e","4","e","5"),
         Mv("d","7","d","5"), Mv("a","2","a","3"), Mv("a","6","a","5"),
         Mv("e","5","d","6") >>,
      \* a position repeated once under a freeze on a7 and once after it expired
      << Fz("a","7"), Mv("g","1","f","3"), Mv("g","8","f","6"), Mv("f","3","g","1"),
         Mv("f","6","g","8"), Mv("g","1","f","3"), Mv("b","8","c","6") >>,
      \* a jump on the h7 pawn, which promotes while jumpable; the jump then expires
      << Mv("h","2","h","4"), Mv("g","7","g","5"), Mv("h","4","g","5"),
         Mv("a","7","a","6"), Mv("g","5","g","6"), Mv("a","6","a","5"),
         Mv("g","6","h","7"), Mv("a","5","a","4"), Jm("h","7"),
         <<"h","7","-","g","8","=","Q">>, Mv("a","4","a","3"), Mv("a","2","a","3") >>,
      \* an illegal and a malformed token after the end of the game
      << <<"R">>, Mv("e","2","e","5") >>,
      << Mv("e","2","e","4"), <<"R">>, <<"z","9">>, Mv("e","7","e","5") >>,
      \* tokens outside the grammar: an unknown spell prefix, characters after
      \* the destination, a promotion to a king
      << <<"x","@","e","4">>, Mv("e","2","e","4") >>,
      << <<"e","2","-","e","4","x">>, Mv("e","7","e","5") >>,
      << Mv("h","2","h","4"), Mv("g","7","g","5"), Mv("h","4","g","5"),
         Mv("a","7","a","6"), Mv("g","5","g","6"), Mv("a","6","a","5"),
         Mv("g","6","h","7"), Mv("a","5","a","4"),
         <<"h","7","-","g","8","=","K">>, Mv("a","4","a","3") >> }

InitReplay ==
    /\ todo \in ReplayLogs
    /\ gs = createInitialGameState(0)
    /\ pendingSpellNotation = <<>>
    /\ rstatus = "running"
    /\ lastCall = "load"
    /\ loadedLen = 0
    /\ pieceIdSeq = 32
    /\ row = NoRow
    /\ handlers = <<>>
    /\ compactLog = <<>>
    /\ ui = DEFAULT_UI
    /\ channel = <<>>

\* which engine call a token leads to
TokenCall(action) ==
    IF UpperSeq(action) = <<"R">> THEN "resign"
    ELSE IF Includes(action, "@") THEN "spell" ELSE "move"

\* a loop without the `if (state.isGameOver) break`
ReplayStepPastEnd ==
    /\ rstatus = "running"
    /\ todo # <<>>
    /\ \E step \in {ReplayToken(gs, pendingSpellNotation, Head(todo))} :
          /\ step.ok
          /\ gs' = step.state
          /\ pendingSpellNotation' = step.pending
    /\ lastCall' = TokenCall(Head(todo))
    /\ todo' = Tail(todo)
    /\ UNCHANGED <<compactLog, ui, channel, rstatus, pieceIdSeq, loadedLen, row, handlers>>

ReplayStep ==
    /\ rstatus = "running"
    /\ todo # <<>>
    /\ ~gs.isGameOver
    /\ \E step \in {ReplayToken(gs, pendingSpellNotation, Head(todo))} :
          /\ step.ok
          /\ gs' = step.state
          /\ pendingSpellNotation' = step.pending
    /\ lastCall' = TokenCall(Head(todo))
    /\ todo' = Tail(todo)
    /\ UNCHANGED <<compactLog, ui, channel, rstatus, pieceIdSeq, loadedLen, row, handlers>>

ReplayThrow ==
    /\ rstatus = "running"
    /\ todo # <<>>
    /\ ~gs.isGameOver
    /\ ~ReplayToken(gs, pendingSpellNotation, Head(todo)).ok
    /\ rstatus' = "error"
    /\ UNCHANGED <<compactLog, ui, channel, gs, pendingSpellNotation, todo, pieceIdSeq, lastCall, loadedLen, row, handlers>>

ReplayReturn ==
    /\ rstatus = "running"
    /\ todo = <<>> \/ gs.isGameOver
    /\ rstatus' = "done"
    /\ UNCHANGED <<compactLog, ui, channel, gs, pendingSpellNotation, todo, pieceIdSeq, lastCall, loadedLen, row, handlers>>

NextReplay == ReplayStep \/ ReplayThrow \/ ReplayReturn

SpecReplay == InitReplay /\ [][NextReplay]_vars

----------------------------------------------------------------------------
(* The PATCH handlers of one game, over the row the store keeps for it *)

HandlerIds == {"h1", "h2"}

MaxRequests == 2

\* the bodies { actions } that clients send
BatchPool ==
    { << Mv("e","2","e","4") >>, << Mv("e","7","e","5") >>,
      << Jm("e","2"), Mv("e","2","e","4") >>, << Fz("e","2") >>,
      << <<"R">> >>, << Mv("e","2","e","5") >>, <<>>,
      << Str_jump \o <<"@","d","2">>, Mv("d","2","d","4") >> }

\* the columns POST inserts and PATCH updates
RowOf(log, state, isGameOver, gameEndMessage, moveLog, status) ==
    [compact_action_log |-> log,
     board_state |-> state.board,
     current_player |-> state.currentPlayer,
     game_turn_number |-> state.gameTurnNumber,
     ply_count |-> state.plyCount,
     spells_state |-> state.spells,
     active_spells |-> state.activeSpells,
     en_passant_target |-> state.enPassantTarget,
     castling_rights |-> state.castlingRights,
     is_game_over |-> isGameOver,
     game_end_message |-> gameEndMessage,
     move_log |-> moveLog,
     repetition_counter |-> state.repetitionCounter,
     status |-> status]

POST(seq) == RowOf(<<>>, createInitialGameState(seq), FALSE, "", <<>>, "waiting")

Handler(pc, actions, gameRow, code, compactActionLog) ==
    [pc |-> pc, actions |-> actions, gameRow |-> gameRow, code |-> code,
     compactActionLog |-> compactActionLog]

IdleHandler == Handler("idle", <<>>, NoRow, 0, <<>>)

InitPatch ==
    /\ row = POST(0)
    /\ pieceIdSeq = 32
    /\ handlers = [h \in HandlerIds |-> IdleHandler]
    /\ loadedLen = 0
    /\ gs = createInitialGameState(0)
    /\ pendingSpellNotation = <<>>
    /\ todo = <<>>
    /\ rstatus = "idle"
    /\ lastCall = "load"
    /\ compactLog = <<>>
    /\ ui = DEFAULT_UI
    /\ channel = <<>>

\* steps 1 and 2 of PATCH: the body is checked and the row is selected
PatchLoad(h) ==
    /\ handlers[h].pc = "idle"
    /\ loadedLen < MaxRequests
    /\ loadedLen' = loadedLen + 1
    /\ \E actions \in BatchPool :
          handlers' = [handlers EXCEPT ![h] =
              IF Len(actions) = 0
              THEN Handler("done", actions, NoRow, 400, <<>>)
              ELSE IF row.is_game_over
              THEN Handler("done", actions, row, 409, <<>>)
              ELSE Handler("loaded", actions, row, 0, <<>>)]
    /\ UNCHANGED <<compactLog, ui, channel, gs, pendingSpellNotation, todo, rstatus, pieceIdSeq, lastCall, row>>

\* the select fails
PatchLoadFails(h) ==
    /\ handlers[h].pc = "idle"
    /\ loadedLen < MaxRequests
    /\ loadedLen' = loadedLen + 1
    /\ \E actions \in BatchPool :
          /\ Len(actions) > 0
          /\ handlers' = [handlers EXCEPT ![h] = Handler("done", actions, NoRow, 404, <<>>)]
    /\ UNCHANGED <<compactLog, ui, channel, gs, pendingSpellNotation, todo, rstatus, pieceIdSeq, lastCall, row>>

NewStatus(gameRow, newState) ==
    IF newState.isGameOver THEN "finished"
    ELSE IF gameRow.status = "waiting" /\ newState.plyCount > 0 THEN "active"
    ELSE gameRow.status

\* steps 3 to 6 of PATCH: the log is extended and replayed, and the update
\* runs on the row as it is now
PatchWrite(h) ==
    /\ handlers[h].pc = "loaded"
    /\ LET gameRow == handlers[h].gameRow
           actions == handlers[h].actions
       IN \E allActions \in {TokensOf(gameRow.compact_action_log) \o actions} :
          \E replayed \in {replayCompactActions(allActions, pieceIdSeq)} :
          \E newLog \in {JoinTokens(allActions)} :
             IF ~replayed.ok
             THEN /\ handlers' = [handlers EXCEPT ![h] = Handler("done", actions, gameRow, 422, <<>>)]
                  /\ UNCHANGED row
             ELSE /\ row' = RowOf(newLog, replayed.state, replayed.state.isGameOver,
                                  replayed.state.gameEndMessage, replayed.state.moveLog,
                                  NewStatus(gameRow, replayed.state))
                  /\ handlers' = [handlers EXCEPT ![h] = Handler("done", actions, gameRow, 200, newLog)]
    /\ pieceIdSeq' = pieceIdSeq + 32
    /\ UNCHANGED <<compactLog, ui, channel, gs, pendingSpellNotation, todo, rstatus, lastCall, loadedLen>>

\* the update fails
PatchWriteFails(h) ==
    /\ handlers[h].pc = "loaded"
    /\ replayCompactActions(TokensOf(handlers[h].gameRow.compact_action_log)
                             \o handlers[h].actions, pieceIdSeq).ok
    /\ handlers' = [handlers EXCEPT ![h] = Handler("done", @.actions, @.gameRow, 500, <<>>)]
    /\ pieceIdSeq' = pieceIdSeq + 32
    /\ UNCHANGED <<compactLog, ui, channel, gs, pendingSpellNotation, todo, rstatus, lastCall, loadedLen, row>>

\* the response is sent and the handler takes the next request
PatchRespond(h) ==
    /\ handlers[h].pc = "done"
    /\ handlers' = [handlers EXCEPT ![h] = IdleHandler]
    /\ UNCHANGED <<compactLog, ui, channel, gs, pendingSpellNotation, todo, rstatus, pieceIdSeq, lastCall, loadedLen, row>>

NextPatch ==
    \E h \in HandlerIds :
       \/ PatchLoad(h)
       \/ PatchLoadFails(h)
       \/ PatchWrite(h)
       \/ PatchWriteFails(h)
       \/ PatchRespond(h)

SpecPatch == InitPatch /\ [][NextPatch]_vars

----------------------------------------------------------------------------
(* The client hook useSpellChess, one browser tab, with the PATCH handlers  *)
(* and the realtime channel it talks to.  The tab views the latest         *)
(* position (currentHistoryViewIndex is not moved back).                   *)

\* the hook's playerColor argument
hookPlayerColor == "moderator"

\* the rows a tab is opened on
ClientOpenings ==
    { <<>>,
      << Mv("h","2","h","4"), Mv("g","7","g","5"), Mv("h","4","g","5"),
         Mv("a","7","a","6"), Mv("g","5","g","6"), Mv("a","6","a","5"),
         Mv("g","6","h","7"), Mv("a","5","a","4") >> }

\* the requests a tab sends
MaxSends == 1

\* the squares the user clicks or drags between
ClickPool == { Sq("e","2"), Sq("e","4"), Sq("h","7"), Sq("g","8") }

ClientSpells == {"freeze"}

rowToGameState(log) == replayCompactActions(TokensOf(log), 0).state

MayPlay(state) == hookPlayerColor = "moderator" \/ state.currentPlayer = hookPlayerColor

InitClient ==
    /\ \E log \in ClientOpenings :
          \E loaded \in {replayCompactActions(log, 0).state} :
             /\ row = RowOf(JoinTokens(log), loaded, loaded.isGameOver, loaded.gameEndMessage,
                            loaded.moveLog,
                            IF loaded.isGameOver THEN "finished"
                            ELSE IF loaded.plyCount > 0 THEN "active" ELSE "waiting")
             /\ gs = loaded
             /\ compactLog = JoinTokens(log)
    /\ pendingSpellNotation = <<>>
    /\ ui = DEFAULT_UI
    /\ channel = <<>>
    /\ handlers = [h \in HandlerIds |-> IdleHandler]
    /\ pieceIdSeq = 32
    /\ loadedLen = 0
    /\ lastCall = "load"
    /\ todo = <<>>
    /\ rstatus = "idle"

\* sendActions up to the fetch: the request leaves the tab, one request at a
\* time
Sends(actions) ==
    /\ loadedLen < MaxSends
    /\ \A h \in HandlerIds : handlers[h].pc = "idle"
    /\ loadedLen' = loadedLen + 1
    /\ handlers' = [handlers EXCEPT !["h1"] = Handler("sent", actions, NoRow, 0, <<>>)]

\* what onSquareClick and onDragMove do once a valid destination is known:
\* applyMove, the optimistic update and the request
PlaysMove(fromR, fromC, toR, toC) ==
    \E result \in {applyMove(gs, fromR, fromC, toR, toC, pendingSpellNotation, <<>>)} :
       IF ~result.success
       THEN /\ ui' = [ui EXCEPT !.selectedPiece = NoSquare]
            /\ UNCHANGED <<gs, pendingSpellNotation, lastCall, handlers, loadedLen>>
       ELSE IF result.awaitingPromotion
       THEN /\ gs' = result.state
            /\ ui' = [ui EXCEPT !.selectedPiece = NoSquare]
            /\ lastCall' = "awaiting"
            /\ UNCHANGED <<pendingSpellNotation, handlers, loadedLen>>
       ELSE /\ gs' = result.state
            /\ ui' = [ui EXCEPT !.selectedPiece = NoSquare]
            /\ pendingSpellNotation' = <<>>
            /\ lastCall' = "move"
            /\ Sends(result.state.moveLog[Len(result.state.moveLog)].actions)

\* the square becomes the selection when it holds a piece of the side to move
Selects(at, otherwise) ==
    /\ ui' = [ui EXCEPT !.selectedPiece =
                 IF gs.board[at.r][at.c] # Null /\ gs.board[at.r][at.c].color = gs.currentPlayer
                 THEN at ELSE otherwise]
    /\ UNCHANGED <<gs, pendingSpellNotation, lastCall, handlers, loadedLen>>

onSquareClick ==
    /\ ~gs.isGameOver
    /\ MayPlay(gs)
    /\ gs.awaitingPromotion = NoPromotion
    /\ \E sq \in ClickPool :
          \E at \in {parseAlgebraicToCoords(sq)} :
             IF ui.spellMode # ""
             THEN \E result \in {applySpell(gs, ui.spellMode, at.r, at.c)} :
                     IF ~result.success
                     THEN UNCHANGED <<gs, ui, pendingSpellNotation, lastCall, handlers, loadedLen>>
                     ELSE /\ gs' = result.state
                          /\ ui' = [ui EXCEPT !.spellMode = ""]
                          /\ pendingSpellNotation' = result.notation
                          /\ lastCall' = "spell"
                          /\ UNCHANGED <<handlers, loadedLen>>
             ELSE IF ui.selectedPiece = NoSquare
             THEN Selects(at, ui.selectedPiece)
             ELSE IF ui.selectedPiece = at
             THEN /\ ui' = [ui EXCEPT !.selectedPiece = NoSquare]
                  /\ UNCHANGED <<gs, pendingSpellNotation, lastCall, handlers, loadedLen>>
             ELSE IF <<at.r, at.c>> \in getValidMovesForPiece(ui.selectedPiece.r,
                                                              ui.selectedPiece.c, gs)
             THEN PlaysMove(ui.selectedPiece.r, ui.selectedPiece.c, at.r, at.c)
             ELSE Selects(at, NoSquare)
    /\ UNCHANGED <<todo, rstatus, pieceIdSeq, row, compactLog, channel>>

onDragMove ==
    /\ ~gs.isGameOver
    /\ MayPlay(gs)
    /\ gs.awaitingPromotion = NoPromotion
    /\ \E a \in ClickPool, b \in ClickPool :
          \E from \in {parseAlgebraicToCoords(a)}, to \in {parseAlgebraicToCoords(b)} :
             /\ from # to
             /\ gs.board[from.r][from.c] # Null
             /\ gs.board[from.r][from.c].color = gs.currentPlayer
             /\ <<to.r, to.c>> \in getValidMovesForPiece(from.r, from.c, gs)
             /\ PlaysMove(from.r, from.c, to.r, to.c)
    /\ UNCHANGED <<todo, rstatus, pieceIdSeq, row, compactLog, channel>>

onCastSpell ==
    /\ MayPlay(gs)
    /\ ~gs.isGameOver
    /\ gs.awaitingPromotion = NoPromotion
    /\ pendingSpellNotation = <<>>
    /\ \E spellType \in ClientSpells :
          /\ canCastSpell(gs, spellType)
          /\ ui' = IF ui.spellMode = spellType /\ ui.spellCaster = gs.currentPlayer
                   THEN [ui EXCEPT !.spellMode = "", !.spellCaster = ""]
                   ELSE [ui EXCEPT !.selectedPiece = NoSquare, !.spellMode = spellType,
                                   !.spellCaster = gs.currentPlayer]
    /\ UNCHANGED <<gs, pendingSpellNotation, todo, rstatus, pieceIdSeq, lastCall, loadedLen, row, handlers, compactLog, channel>>

onCancelSpell ==
    /\ pendingSpellNotation # <<>> \/ ui.spellMode # ""
    /\ IF pendingSpellNotation # <<>>
       THEN gs' = rowToGameState(compactLog) /\ lastCall' = "load"
       ELSE UNCHANGED <<gs, lastCall>>
    /\ ui' = [ui EXCEPT !.spellMode = "", !.spellCaster = ""]
    /\ pendingSpellNotation' = <<>>
    /\ UNCHANGED <<todo, rstatus, pieceIdSeq, loadedLen, row, handlers, compactLog, channel>>

onPromote ==
    /\ \E piece \in PromotionPool :
          \E result \in {applyPromotion(gs, piece, pendingSpellNotation)} :
             /\ result.success
             /\ gs' = result.state
             /\ pendingSpellNotation' = <<>>
             /\ lastCall' = "promotion"
             /\ Sends(result.state.moveLog[Len(result.state.moveLog)].actions)
    /\ UNCHANGED <<todo, rstatus, pieceIdSeq, row, ui, compactLog, channel>>

onResign ==
    /\ ~gs.isGameOver
    /\ MayPlay(gs)
    /\ gs' = applyResign(gs)
    /\ lastCall' = "resign"
    /\ Sends(<< <<"R">> >>)
    /\ UNCHANGED <<pendingSpellNotation, todo, rstatus, pieceIdSeq, row, ui, compactLog, channel>>

\* the rest of sendActions: the response arrives
sendActionsReturns(h) ==
    /\ handlers[h].pc = "done"
    /\ compactLog' = IF handlers[h].code = 200 THEN handlers[h].compactActionLog ELSE compactLog
    /\ handlers' = [handlers EXCEPT ![h] = IdleHandler]
    /\ UNCHANGED <<gs, pendingSpellNotation, todo, rstatus, pieceIdSeq, lastCall, loadedLen, row, ui, channel>>

\* the realtime subscription handler, on the oldest undelivered UPDATE
RealtimeUpdate ==
    /\ channel # <<>>
    /\ channel' = Tail(channel)
    /\ IF Head(channel) = compactLog
       THEN UNCHANGED <<gs, pendingSpellNotation, ui, compactLog, lastCall>>
       ELSE /\ compactLog' = Head(channel)
            /\ gs' = rowToGameState(Head(channel))
            /\ ui' = DEFAULT_UI
            /\ pendingSpellNotation' = <<>>
            /\ lastCall' = "load"
    /\ UNCHANGED <<todo, rstatus, pieceIdSeq, loadedLen, row, handlers>>

\* steps 1 and 2 of PATCH for a request of the tab
PatchSelect(h) ==
    /\ handlers[h].pc = "sent"
    /\ handlers' = [handlers EXCEPT ![h] =
          IF row.is_game_over
          THEN Handler("done", @.actions, row, 409, <<>>)
          ELSE Handler("loaded", @.actions, row, 0, <<>>)]
    /\ UNCHANGED <<gs, pendingSpellNotation, todo, rstatus, pieceIdSeq, lastCall, loadedLen, row, ui, compactLog, channel>>

\* steps 3 to 6 of PATCH; an update of the row is published on the channel
PatchUpdate(h) ==
    /\ handlers[h].pc = "loaded"
    /\ LET gameRow == handlers[h].gameRow
           actions == handlers[h].actions
       IN \E allActions \in {TokensOf(gameRow.compact_action_log) \o actions} :
          \E replayed \in {replayCompactActions(allActions, pieceIdSeq)} :
          \E newLog \in {JoinTokens(allActions)} :
             IF ~replayed.ok
             THEN /\ handlers' = [handlers EXCEPT ![h] = Handler("done", actions, gameRow, 422, <<>>)]
                  /\ UNCHANGED <<row, channel>>
             ELSE /\ row' = RowOf(newLog, replayed.state, replayed.state.isGameOver,
                                  replayed.state.gameEndMessage, replayed.state.moveLog,
                                  NewStatus(gameRow, replayed.state))
                  /\ channel' = Append(channel, newLog)
                  /\ handlers' = [handlers EXCEPT ![h] = Handler("done", actions, gameRow, 200, newLog)]
    /\ pieceIdSeq' = pieceIdSeq + 32
    /\ UNCHANGED <<gs, pendingSpellNotation, todo, rstatus, lastCall, loadedLen, ui, compactLog>>

\* the update fails and PATCH answers 500
PatchUpdateFails(h) ==
    /\ handlers[h].pc = "loaded"
    /\ replayCompactActions(TokensOf(handlers[h].gameRow.compact_action_log)
                             \o handlers[h].actions, pieceIdSeq).ok
    /\ handlers' = [handlers EXCEPT ![h] = Handler("done", @.actions, @.gameRow, 500, <<>>)]
    /\ pieceIdSeq' = pieceIdSeq + 32
    /\ UNCHANGED <<gs, pendingSpellNotation, todo, rstatus, lastCall, loadedLen, row, ui, compactLog, channel>>

NextClient ==
    \/ onSquareClick
    \/ onDragMove
    \/ onCastSpell
    \/ onCancelSpell
    \/ onPromote
    \/ onResign
    \/ RealtimeUpdate
    \/ \E h \in HandlerIds :
          \/ sendActionsReturns(h)
          \/ PatchSelect(h)
          \/ PatchUpdate(h)
          \/ PatchUpdateFails(h)

SpecClient == InitClient /\ [][NextClient]_vars

----------------------------------------------------------------------------
(* Properties *)

StripIds(board) == [r \in Idx |-> [c \in Idx |-> [board[r][c] EXCEPT !.id = <<>>]]]

\* the fields of a state that its log has to determine
LoggedFields(s) ==
    [board |-> StripIds(s.board), currentPlayer |-> s.currentPlayer,
     gameTurnNumber |-> s.gameTurnNumber, plyCount |-> s.plyCount,
     spells |-> s.spells, castlingRights |-> s.castlingRights,
     enPassantTarget |-> s.enPassantTarget,
     repetitionCounter |-> s.repetitionCounter,
     isGameOver |-> s.isGameOver, gameEndMessage |-> s.gameEndMessage]

ReplayOfLog(s) == replayCompactActions(TokensOf(buildCompactActionLog(s.moveLog)), 0)

\* C1: every half-move that a game not yet over completes (a finalized move,
\* a promotion, a resignation, with or without a spell cast before it) leaves
\* a state that the replay of its own compact log reproduces on board (up to
\* piece ids), turn counters, spells, castling rights, en passant target,
\* repetition counter, isGameOver and gameEndMessage.
C1_LogFidelity ==
    [][ (~gs.isGameOver /\ gs'.moveLog # gs.moveLog)
        => \E replayed \in {ReplayOfLog(gs')} :
              replayed.ok /\ LoggedFields(replayed.state) = LoggedFields(gs') ]_vars

\* C2: a PATCH handler that answers 200 wrote on a row whose log was still
\* the one it loaded, and the stored log is then the previously stored log
\* followed by the request's actions.
C2_ConditionalWrite ==
    [][ \A h \in HandlerIds :
          (handlers[h].pc = "loaded" /\ handlers'[h].code = 200)
          => /\ handlers[h].gameRow.compact_action_log = row.compact_action_log
             /\ row'.compact_action_log
                  = JoinTokens(TokensOf(row.compact_action_log) \o handlers[h].actions) ]_vars

\* C3: no state that the replay returns holds two spells cast within the
\* same ply (two active entries with the same expiry).
C3_OneSpellPerPly ==
    rstatus = "done"
    => \A i, j \in 1..Len(gs.activeSpells) :
          i # j => gs.activeSpells[i].expiresAtPly # gs.activeSpells[j].expiresAtPly

\* C4: once isGameOver is true no call changes the state: no moveLog entry,
\* snapshot, board change or counter change is produced.
C4_GameOverRejects == [][ gs.isGameOver => gs' = gs ]_vars

ScholarsMate ==
    << Mv("e","2","e","4"), Mv("e","7","e","5"), Mv("f","1","c","4"),
       Mv("b","8","c","6"), Mv("d","1","h","5"), Mv("g","8","f","6"),
       Mv("h","5","f","7") >>

LastNotation(s) == s.moveLog[Len(s.moveLog)].notation

EndsWith(str, ch) == str # <<>> /\ str[Len(str)] = ch

ScholarsMatePlayed == TokensOf(buildCompactActionLog(gs.moveLog)) = ScholarsMate

\* C5 as stated: after the seven moves of scholar's mate the game is over,
\* the message is "White wins by checkmate!" and the last notation ends
\* with '#'.
C5_ScholarsMateEnds ==
    ScholarsMatePlayed
    => /\ gs.isGameOver
       /\ gs.gameEndMessage = "White wins by checkmate!"
       /\ EndsWith(LastNotation(gs), "#")

\* C5 amended: after the seven moves of scholar's mate black is in check and
\* has no standard legal move, but black still holds an available freeze,
\* so hasLegalMoves answers true: the game is not over, the message is
\* empty, it is black's turn and the last notation ends with '+'.
C5_ScholarsMateIsCheck ==
    ScholarsMatePlayed
    => /\ ~gs.isGameOver
       /\ gs.gameEndMessage = ""
       /\ gs.currentPlayer = "black"
       /\ EndsWith(LastNotation(gs), "+")
       /\ isKingInCheck("black", gs.board, gs.enPassantTarget, gs.activeSpells, gs.plyCount)
       /\ ~HasStandardMove("black", gs)
       /\ canCastSpell(gs, "freeze")

C5_Witness == ScholarsMatePlayed /\ gs.plyCount = Len(ScholarsMate)

\* the king moves that isValidMove accepts under the given active spells
KingMoves(s, kingPos, activeSpells) ==
    { to \in Idx \X Idx :
        isValidMove(kingPos.r, kingPos.c, to[1], to[2], s.board, s.currentPlayer,
                    s.enPassantTarget, s.castlingRights, activeSpells, s.plyCount) }

WithoutFreeze(activeSpells) == SelectSeq(activeSpells, LAMBDA sp : sp.type # "freeze")

\* C6: when the current player's king stands inside an active freeze zone,
\* every king move that is legal without the freeze is still accepted.
C6_KingNeverFrozen ==
    \E kingPos \in {FindType(gs.board, KingType(gs.currentPlayer))} :
       (/\ kingPos # NoSquare
        /\ isSquareUnderActiveFreeze(kingPos.r, kingPos.c, gs.activeSpells, gs.plyCount))
       => KingMoves(gs, kingPos, WithoutFreeze(gs.activeSpells))
             \subseteq KingMoves(gs, kingPos, gs.activeSpells)

\* the squares of the non-king pieces inside an active freeze zone
FrozenSquares(s) ==
    { rc \in Idx \X Idx :
        /\ s.board[rc[1]][rc[2]] # Null
        /\ toLowerCase(s.board[rc[1]][rc[2]].type) # "k"
        /\ isSquareUnderActiveFreeze(rc[1], rc[2], s.activeSpells, s.plyCount) }

\* C7: no call moves a non-king piece that stands inside an active freeze
\* zone to another square: after the call the piece is on its square or off
\* the board.
C7_FrozenPiecesStay ==
    [][ ~gs.isGameOver
        => \A rc \in FrozenSquares(gs) :
              \E at \in {findPieceById(gs'.board, gs.board[rc[1]][rc[2]].id)} :
                 at = NoSquare \/ (at.r = rc[1] /\ at.c = rc[2]) ]_vars

\* C8: after every half-move that a game not yet over completes, the
\* mover's king is not in check on the resulting board, active spells and
\* ply count.
C8_NoSelfCheck ==
    [][ (~gs.isGameOver /\ gs'.plyCount = gs.plyCount + 1)
        => ~isKingInCheck(gs.currentPlayer, gs'.board, gs'.enPassantTarget,
                          gs'.activeSpells, gs'.plyCount) ]_vars

\* C9: every active jump spell whose target piece is on the board refers to
\* a piece with isJumpable = TRUE.
C9_JumpTargetsJumpable ==
    \A i \in 1..Len(gs.activeSpells) :
       gs.activeSpells[i].type = "jump"
       => \E at \in {findPieceById(gs.board, gs.activeSpells[i].targetId)} :
             at = NoSquare \/ gs.board[at.r][at.c].isJumpable

\* every active entry was cast at most two plies ago and has not expired
ActiveWindow ==
    \A i \in 1..Len(gs.activeSpells) :
       /\ gs.activeSpells[i].expiresAtPly > gs.plyCount
       /\ gs.activeSpells[i].expiresAtPly <= gs.plyCount + SpellLifetimePlies

\* a call that leaves plyCount alone changes activeSpells only by appending
\* one entry that expires two plies later
CastAppends ==
    (gs'.plyCount = gs.plyCount /\ gs'.activeSpells # gs.activeSpells)
    => /\ Len(gs'.activeSpells) = Len(gs.activeSpells) + 1
       /\ SubSeq(gs'.activeSpells, 1, Len(gs.activeSpells)) = gs.activeSpells
       /\ gs'.activeSpells[Len(gs'.activeSpells)].expiresAtPly
            = gs.plyCount + SpellLifetimePlies

\* a finalization keeps exactly the entries that expire after the new ply
KeptUntilExpiry ==
    gs'.plyCount # gs.plyCount
    => /\ gs'.plyCount = gs.plyCount + 1
       /\ \E kept \in {{ i \in 1..Len(gs.activeSpells) :
                            gs.activeSpells[i].expiresAtPly > gs.plyCount + 1 }} :
             /\ Len(gs'.activeSpells) = Cardinality(kept)
             /\ \A i \in kept : \E j \in 1..Len(gs'.activeSpells) :
                    gs'.activeSpells[j] = gs.activeSpells[i]

\* C10: a spell cast at plyCount = p is in activeSpells exactly while
\* plyCount < p + 2: a cast appends an entry expiring at p + 2, each
\* finalization keeps the entries that expire later and removes the others,
\* and every entry of activeSpells has expiresAtPly > plyCount.
C10_SpellLifetime ==
    /\ []ActiveWindow
    /\ [][CastAppends /\ KeptUntilExpiry]_vars

\* a spell was cast, lived through two plies and is gone
C10_Witness ==
    /\ gs.activeSpells = <<>>
    /\ gs.plyCount >= SpellLifetimePlies
    /\ lastCall = "move"
    /\ \E color \in {"white", "black"} :
          gs.spells[color].jump < InitialJump \/ gs.spells[color].freeze < InitialFreeze

LastUsedTurn(s, color, kind) ==
    IF kind = "jump" THEN s.spells[color].jumpLastUsedTurn
    ELSE s.spells[color].freezeLastUsedTurn

Charges(s, color, kind) ==
    IF kind = "jump" THEN s.spells[color].jump ELSE s.spells[color].freeze

SpellKinds == {"jump", "freeze"}

\* the player to move last cast `kind` at turn T: a cast of that kind fails
\* before turn T + 3, and from then on it succeeds while charges remain (a
\* jump being aimed at a piece)
CooldownHolds ==
    \A kind \in SpellKinds :
       \E T \in {LastUsedTurn(gs, gs.currentPlayer, kind)} :
          T # 0
          => \A r \in Idx, c \in Idx :
                \E result \in {applySpell(gs, kind, r, c)} :
                   /\ gs.gameTurnNumber < T + 3 => ~result.success
                   /\ (/\ gs.gameTurnNumber >= T + 3
                       /\ Charges(gs, gs.currentPlayer, kind) > 0
                       /\ (kind = "freeze" \/ gs.board[r][c] # Null))
                      => result.success

\* a cast records the turn it was made in, and only a cast changes the record
CastRecordsTurn ==
    \A color \in {"white", "black"}, kind \in SpellKinds :
       /\ Charges(gs', color, kind) < Charges(gs, color, kind)
          => /\ color = gs.currentPlayer
             /\ LastUsedTurn(gs', color, kind) = gs.gameTurnNumber
       /\ Charges(gs', color, kind) = Charges(gs, color, kind)
          => LastUsedTurn(gs', color, kind) = LastUsedTurn(gs, color, kind)

\* C11: a spell cast at game turn T cannot be cast again by the same player
\* while gameTurnNumber < T + 3, and can be cast again (charges remaining)
\* from turn T + 3 on.
C11_CooldownMonotone == []CooldownHolds /\ [][CastRecordsTurn]_vars

\* a player has cast the same spell twice
C11_Witness ==
    \E color \in {"white", "black"} : Charges(gs, color, "jump") = InitialJump - 2

\* a snapshot with the piece ids blanked
StripSnapshot(snap) ==
    [snap EXCEPT
       !.board = StripIds(@),
       !.activeSpells = [k \in DOMAIN @ |->
                           [@[k] EXCEPT !.targetId = <<>>, !.affectedPieceIds = <<>>]],
       !.awaitingPromotion.movingPiece.id = <<>>]

\* the state that replaying the first n half-moves of the moveLog produces
PrefixReplay(s, n) == replayCompactActions(FlatActions(SubSeq(s.moveLog, 1, n)), 0)

\* every spell cast so far is a token of the moveLog (no spell was replaced
\* by a second one or dropped by a resignation, and none is pending)
SpellsCast(s) ==
    (InitialJump - s.spells.white.jump) + (InitialFreeze - s.spells.white.freeze)
    + (InitialJump - s.spells.black.jump) + (InitialFreeze - s.spells.black.freeze)

SpellTokens(s) == Len(SelectSeq(FlatActions(s.moveLog), LAMBDA t : Includes(t, "@")))

AllSpellsLogged == SpellsCast(gs) = SpellTokens(gs)

\* C12: every history[i] equals, on every snapshot field and up to piece
\* ids, the state that replaying the first i half-moves of the moveLog
\* produces (history is indexed from 1 here, so history[i] follows i - 1
\* half-moves).
C12_SnapshotConsistency ==
    AllSpellsLogged
    => \A i \in 1..Len(gs.history) :
          \E replayed \in {PrefixReplay(gs, i - 1)} :
             /\ replayed.ok
             /\ StripSnapshot(gs.history[i]) = StripSnapshot(createSnapshot(replayed.state))

\* one snapshot more than log entries, and the k-th entry (counted from 1)
\* points at the snapshot taken after it, which has index k counted from 0
HistoryShape ==
    /\ Len(gs.history) = Len(gs.moveLog) + 1
    /\ \A k \in 1..Len(gs.moveLog) : gs.moveLog[k].plySnapshotIndex = k

\* a successful spell cast or a move that stops for the promotion choice
\* adds neither a log entry nor a snapshot
NoEntryBeforeFinalize ==
    (gs' # gs /\ lastCall' \in {"spell", "awaiting"})
    => gs'.moveLog = gs.moveLog /\ gs'.history = gs.history

\* C13: history.length = moveLog.length + 1, every moveLog[i] has
\* plySnapshotIndex = i + 1, and spell casts and pending promotions add
\* neither a log entry nor a snapshot.
C13_HistoryLength == []HistoryShape /\ [][NoEntryBeforeFinalize]_vars

\* a spell was cast and the move waits for its promotion piece, after some
\* half-moves
C13_Witness ==
    /\ lastCall = "awaiting"
    /\ pendingSpellNotation # <<>>
    /\ gs.awaitingPromotion # NoPromotion
    /\ Len(gs.moveLog) > 0

KingCount(s, color) ==
    Cardinality({ rc \in Idx \X Idx : s.board[rc[1]][rc[2]].type = KingType(color) })

\* the colour has its king, or the game has just been ended by its capture
KingOrCapture(s, color) ==
    \/ KingCount(s, color) = 1
    \/ /\ KingCount(s, color) = 0
       /\ s.isGameOver
       /\ s.gameEndMessage = Capitalize(Opponent(color)) \o " wins by king capture!"
       /\ s.moveLog # <<>>
       /\ s.moveLog[Len(s.moveLog)].player = Opponent(color)
       /\ EndsWith(LastNotation(s), "#")

\* C14: every call made on a game that is not over leaves each colour with
\* exactly one king, unless the call captured the opponent's king, and then
\* the game is over with the message "<Mover> wins by king capture!" and a
\* '#' suffix.
C14_OneKing ==
    [][ ~gs.isGameOver
        => \A color \in {"white", "black"} : KingOrCapture(gs', color) ]_vars

\* how many history snapshots carry the signature
SigCount(s, sig) ==
    Cardinality({ i \in 1..Len(s.history) : generateStateSignature(s.history[i]) = sig })

LastSnapshot(s) == s.history[Len(s.history)]

\* the call finalized a move: a moveLog entry other than a resignation was added
FinalizedMove ==
    /\ lastCall' \in {"move", "promotion"}
    /\ Len(gs'.moveLog) = Len(gs.moveLog) + 1

ThirdOccurrence(s) == SigCount(s, generateStateSignature(LastSnapshot(s))) >= 3

DrawnByRepetition(s) ==
    /\ s.isGameOver
    /\ s.gameEndMessage = "Draw by threefold repetition."

\* C15: whenever a finalized move produces a position whose signature has now
\* occurred three times among the history snapshots, the initial one
\* included, the resulting state is game over with the message
\* "Draw by threefold repetition."
C15_RepetitionDetected ==
    [][ FinalizedMove /\ ThirdOccurrence(gs') => DrawnByRepetition(gs') ]_vars

\* the same, for moves made on a game that is still running
C15_RunningGames ==
    [][ ~gs.isGameOver /\ FinalizedMove /\ ThirdOccurrence(gs')
        => DrawnByRepetition(gs') ]_vars

\* handler h has just replayed a log and stored the resulting state
Stored(h) ==
    /\ handlers[h].pc = "loaded"
    /\ handlers'[h].code = 200

\* C16: two replays of the same action log produce equal states, piece ids
\* included: a handler that replays the log the row already holds stores the
\* board, ids included, and the active spells that the row already holds.
C16_Determinism ==
    [][ \A h \in HandlerIds :
           Stored(h) /\ row'.compact_action_log = row.compact_action_log
           => /\ row'.board_state = row.board_state
              /\ row'.active_spells = row.active_spells ]_vars

\* the same, piece ids left out
C16_ModuloIds ==
    [][ \A h \in HandlerIds :
           Stored(h) /\ row'.compact_action_log = row.compact_action_log
           => StripIds(row'.board_state) = StripIds(row.board_state) ]_vars

\* the caller's object, held at reference 1, as a call leaves it
InputAfter(out) == out.heap[1]

SpellLeavesInput(sp) ==
    \E sq \in {parseAlgebraicToCoords(sp[2])} :
       InputAfter(applySpellOn(<<gs>>, 1, sp[1], sq.r, sq.c)) = gs

MoveLeavesInput(mv) ==
    \E from \in {parseAlgebraicToCoords(mv[1])} :
    \E to \in {parseAlgebraicToCoords(mv[2])} :
       InputAfter(applyMoveOn(<<gs>>, 1, from.r, from.c, to.r, to.c,
                              pendingSpellNotation, mv[3])) = gs

\* C17: no public operation mutates its input: after applySpell, applyMove,
\* applyPromotion or applyResign, whether the call succeeds, awaits a
\* promotion or returns an error, the caller's GameState object is as it was
\* before the call.
C17_InputUntouched ==
    /\ \A sp \in SpellPool : SpellLeavesInput(sp)
    /\ \A mv \in MovePool : MoveLeavesInput(mv)
    /\ \A promo \in PromotionPool :
          InputAfter(applyPromotionOn(<<gs>>, 1, promo, pendingSpellNotation)) = gs
    /\ InputAfter(applyResignOn(<<gs>>, 1)) = gs

\* a state on which a spell succeeds, a move is refused, a move awaits its
\* promotion piece and a promotion is refused
C17_Witness ==
    /\ \E sp \in SpellPool :
          applySpell(gs, sp[1], parseAlgebraicToCoords(sp[2]).r,
                     parseAlgebraicToCoords(sp[2]).c).success
    /\ \E mv \in MovePool :
          \E result \in {applyMove(gs, parseAlgebraicToCoords(mv[1]).r,
                                   parseAlgebraicToCoords(mv[1]).c,
                                   parseAlgebraicToCoords(mv[2]).r,
                                   parseAlgebraicToCoords(mv[2]).c,
                                   pendingSpellNotation, mv[3])} :
             result.success /\ result.awaitingPromotion
    /\ \E mv \in MovePool :
          ~applyMove(gs, parseAlgebraicToCoords(mv[1]).r, parseAlgebraicToCoords(mv[1]).c,
                     parseAlgebraicToCoords(mv[2]).r, parseAlgebraicToCoords(mv[2]).c,
                     pendingSpellNotation, mv[3]).success
    /\ \E promo \in PromotionPool :
          ~applyPromotion(gs, promo, pendingSpellNotation).success
    /\ lastCall # "load"

\* C18: the compact_action_log of the row is exactly the comma-joined
\* concatenation of the actions of the entries of its move_log, whatever
\* batches the requests carried.
C18_StoredLogIsMoveLog ==
    row.compact_action_log = buildCompactActionLog(row.move_log)

IsSpellToken(t) == Includes(t, "@")

IsMoveToken(t) == ~Includes(t, "@") /\ UpperSeq(t) # <<"R">> /\ Includes(t, "-")

\* C19: every spell token of the stored compact_action_log is immediately
\* followed by a move token: the log never holds a spell without the move of
\* the same half-move.
C19_SpellThenMove ==
    \E tokens \in {TokensOf(row.compact_action_log)} :
       \A i \in 1..Len(tokens) :
          IsSpellToken(tokens[i])
          => i < Len(tokens) /\ IsMoveToken(tokens[i + 1])

\* the token grammar: spell := (j | f | jump | freeze) @ square,
\* move := square - square (= promo)?, square := [a-h][1-8], promo := [QRBNqrbn]
IsSquare(sq) ==
    /\ Len(sq) = 2
    /\ \E i \in 1..8 : FileChars[i] = sq[1]
    /\ \E i \in 2..9 : DigitChars[i] = sq[2]

SpellPrefixes == { <<"j">>, <<"f">>, Str_jump, Str_freeze }

PromoLetters == {"Q", "R", "B", "N", "q", "r", "b", "n"}

IsSpellGrammar(t) ==
    \E prefix \in SpellPrefixes :
       /\ Len(t) = Len(prefix) + 3
       /\ SubSeq(t, 1, Len(prefix)) = prefix
       /\ t[Len(prefix) + 1] = "@"
       /\ IsSquare(SubSeq(t, Len(prefix) + 2, Len(t)))

IsMoveGrammar(t) ==
    /\ Len(t) \in {5, 7}
    /\ IsSquare(SubSeq(t, 1, 2))
    /\ t[3] = "-"
    /\ IsSquare(SubSeq(t, 4, 5))
    /\ Len(t) = 7 => t[6] = "=" /\ t[7] \in PromoLetters

MatchesGrammar(t) ==
    UpperSeq(t) = <<"R">> \/ IsSpellGrammar(t) \/ IsMoveGrammar(t)

\* the replay took the token at the head of the log and went on
TokenAccepted ==
    /\ rstatus = "running"
    /\ todo # <<>>
    /\ todo' = Tail(todo)

\* C20: replayCompactActions raises an error for every token that does not
\* match the token grammar: a token the replay interprets and goes on from is
\* a token of the grammar.
C20_MalformedRejected ==
    [][ TokenAccepted => MatchesGrammar(Head(todo)) ]_vars

\* the move is made by a pawn and ends on a last rank
PawnToLastRank(s, from, to) ==
    /\ s.board[from.r][from.c] # Null
    /\ toLowerCase(s.board[from.r][from.c].type) = "p"
    /\ to.r \in {0, 7}

\* the call applyMove(gs, mv) of the pool
PoolMove(mv) ==
    applyMove(gs, parseAlgebraicToCoords(mv[1]).r, parseAlgebraicToCoords(mv[1]).c,
              parseAlgebraicToCoords(mv[2]).r, parseAlgebraicToCoords(mv[2]).c,
              pendingSpellNotation, mv[3])

PromotionNeedsPending ==
    gs.awaitingPromotion = NoPromotion
    => \A promo \in PromotionPool : ~applyPromotion(gs, promo, pendingSpellNotation).success

UnexpectedPieceRejected ==
    \A mv \in MovePool :
       /\ mv[3] # <<>>
       /\ ~PawnToLastRank(gs, parseAlgebraicToCoords(mv[1]), parseAlgebraicToCoords(mv[2]))
       => ~PoolMove(mv).success

\* C21: a promotion piece with no promotion pending is an error:
\* applyPromotion fails on a state whose awaitingPromotion is null, and a
\* move that carries a promotion piece is rejected when it is not a pawn
\* reaching its last rank.
C21_PromotionUnexpected == PromotionNeedsPending /\ UnexpectedPieceRejected

\* once the game is over the loop takes no further token and raises nothing
StopsAtGameOver ==
    gs.isGameOver /\ rstatus = "running"
    => /\ rstatus' = "done"
       /\ gs' = gs
       /\ todo' = todo

\* on the log as loaded: every prefix that ends the game replays to the
\* state the whole log replays to
PrefixDecides ==
    lastCall = "load" /\ rstatus = "running"
    => \A n \in 0..Len(todo) :
          \E prefix \in {replayCompactActions(SubSeq(todo, 1, n), 0)} :
             prefix.ok /\ prefix.state.isGameOver
             => replayCompactActions(todo, 0) = prefix

\* C22: for every log L with a prefix P after which isGameOver is true,
\* replayCompactActions(L) returns the state of replayCompactActions(P)
\* without an error, whatever tokens follow P.
C22_ReplayTruncation == []PrefixDecides /\ [][StopsAtGameOver]_vars

\* a replay that returned at the end of the game with a malformed token and
\* more left in the log
C22_Witness ==
    /\ rstatus = "done"
    /\ gs.isGameOver
    /\ Len(todo) > 1
    /\ ~MatchesGrammar(Head(todo))

\* what applyResign makes of state s
ResignEffect(s, ns) ==
    /\ ns.isGameOver
    /\ ns.gameEndMessage = Capitalize(s.currentPlayer) \o " resigned. "
                           \o Capitalize(Opponent(s.currentPlayer)) \o " wins."
    /\ Len(ns.moveLog) = Len(s.moveLog) + 1
    /\ SubSeq(ns.moveLog, 1, Len(s.moveLog)) = s.moveLog
    /\ ns.moveLog[Len(ns.moveLog)].notation = <<"R">>
    /\ ns.moveLog[Len(ns.moveLog)].actions = << <<"R">> >>
    /\ Len(ns.history) = Len(s.history) + 1
    /\ SubSeq(ns.history, 1, Len(s.history)) = s.history

ResignFrame(s, ns) ==
    /\ ns.board = s.board
    /\ ns.currentPlayer = s.currentPlayer
    /\ ns.plyCount = s.plyCount
    /\ ns.gameTurnNumber = s.gameTurnNumber
    /\ ns.spells = s.spells
    /\ ns.activeSpells = s.activeSpells
    /\ ns.castlingRights = s.castlingRights
    /\ ns.repetitionCounter = s.repetitionCounter

\* C23: applyResign by player X sets isGameOver and the message
\* "<X> resigned. <opponent> wins.", appends exactly one moveLog entry with
\* notation "R" and actions ["R"] and one history snapshot, and leaves board,
\* currentPlayer, plyCount, gameTurnNumber, spells, activeSpells,
\* castlingRights and repetitionCounter unchanged.
C23_ResignEffect ==
    \E resigned \in {applyResign(gs)} :
       ResignEffect(gs, resigned) /\ ResignFrame(gs, resigned)

\* black has resigned with a spell of its own still active
C23_Witness ==
    /\ lastCall = "resign"
    /\ gs.currentPlayer = "black"
    /\ gs.activeSpells # <<>>
    /\ gs.gameEndMessage = "Black resigned. White wins."

ChargesInRange ==
    \A color \in {"white", "black"} :
       /\ Charges(gs, color, "jump") \in 0..InitialJump
       /\ Charges(gs, color, "freeze") \in 0..InitialFreeze

EmptyCounterFails ==
    \A kind \in SpellKinds :
       Charges(gs, gs.currentPlayer, kind) = 0
       => \A r \in Idx, c \in Idx : ~applySpell(gs, kind, r, c).success

\* the replay has just applied a spell token
SpellTokenApplied ==
    /\ TokenAccepted
    /\ lastCall' = "spell"

\* exactly the caster's counter of one kind went down by one
CastDecrements ==
    SpellTokenApplied
    => \E kind \in SpellKinds :
          /\ Charges(gs', gs.currentPlayer, kind) = Charges(gs, gs.currentPlayer, kind) - 1
          /\ \A color \in {"white", "black"}, other \in SpellKinds :
                <<color, other>> # <<gs.currentPlayer, kind>>
                => Charges(gs', color, other) = Charges(gs, color, other)

\* C24: each player's charges stay within 0..2 jumps and 0..5 freezes, each
\* successful cast takes exactly one charge of that kind from the caster, and
\* applySpell fails whenever the caster's counter is 0.
C24_ChargesBounded ==
    [](ChargesInRange /\ EmptyCounterFails) /\ [][CastDecrements]_vars

\* the replay has thrown on a jump token: no jump left, the cooldown over
C24_Witness ==
    /\ rstatus = "error"
    /\ todo # <<>>
    /\ Head(todo) = Jm("c","4")
    /\ Charges(gs, gs.currentPlayer, "jump") = 0
    /\ ~isSpellOnCooldown(gs.spells[gs.currentPlayer], "jump", gs.gameTurnNumber)

\* the activeSpells entry a cast appends
CastEntryOk(s, kind, r, c, entry) ==
    /\ entry.type = kind
    /\ entry.expiresAtPly = s.plyCount + 2
    /\ kind = "jump" => entry.targetId = s.board[r][c].id
    /\ kind = "freeze" => entry.targetSquare = [r |-> r, c |-> c]

\* the state a successful cast of `kind` at (r, c) by the player to move
\* returns: s with the four changes and nothing else
CastResult(s, kind, r, c, ns) ==
    \E player \in {s.currentPlayer} :
       /\ Charges(ns, player, kind) = Charges(s, player, kind) - 1
       /\ LastUsedTurn(ns, player, kind) = s.gameTurnNumber
       /\ Len(ns.activeSpells) = Len(s.activeSpells) + 1
       /\ SubSeq(ns.activeSpells, 1, Len(s.activeSpells)) = s.activeSpells
       /\ CastEntryOk(s, kind, r, c, ns.activeSpells[Len(ns.activeSpells)])
       /\ kind = "jump" => ns.board[r][c].isJumpable
       /\ [ns EXCEPT !.spells[player] = s.spells[player],
                     !.activeSpells = s.activeSpells,
                     !.board[r][c] = s.board[r][c]] = s
       /\ \E other \in SpellKinds \ {kind} :
             /\ Charges(ns, player, other) = Charges(s, player, other)
             /\ LastUsedTurn(ns, player, other) = LastUsedTurn(s, player, other)
       /\ kind = "freeze" => ns.board = s.board
       /\ kind = "jump" => [ns.board[r][c] EXCEPT !.isJumpable = s.board[r][c].isJumpable]
                           = s.board[r][c]

\* C25: a successful applySpell changes only the caster's charge counter of
\* that kind (minus one), the caster's last-used-turn marker of that kind (the
\* current gameTurnNumber), activeSpells (one entry with expiresAtPly =
\* plyCount + 2) and, for jump, the target's isJumpable flag; a jump cast on
\* an empty square fails.
C25_SpellFrame ==
    \A kind \in SpellKinds, r \in Idx, c \in Idx :
       \E result \in {applySpell(gs, kind, r, c)} :
          /\ result.success => CastResult(gs, kind, r, c, result.state)
          /\ kind = "jump" /\ gs.board[r][c] = Null => ~result.success

\* black has just cast a freeze in a turn later than the first, an earlier
\* spell still active
C25_Witness ==
    /\ lastCall = "spell"
    /\ gs.currentPlayer = "black"
    /\ gs.spells.black.freezeLastUsedTurn > 1
    /\ Len(gs.activeSpells) >= 1

TurnMatchesPly ==
    ~gs.isGameOver
    => /\ gs.currentPlayer = "white" <=> gs.plyCount % 2 = 0
       /\ gs.gameTurnNumber = 1 + gs.plyCount \div 2

EndedByVerdict(s) ==
    \/ s.gameEndMessage = "Draw by stalemate."
    \/ \E color \in {"white", "black"} :
          \/ s.gameEndMessage = Capitalize(color) \o " wins by checkmate!"
          \/ s.gameEndMessage = Capitalize(color) \o " wins by king capture!"

\* a finalized move on a running game passes the turn, unless its verdict
\* ends the game
TurnAdvance ==
    FinalizedMove /\ ~gs.isGameOver
    => IF EndedByVerdict(gs')
       THEN /\ gs'.currentPlayer = gs.currentPlayer
            /\ gs'.gameTurnNumber = gs.gameTurnNumber
       ELSE /\ gs'.currentPlayer = Opponent(gs.currentPlayer)
            /\ gs'.gameTurnNumber = IF gs.currentPlayer = "black"
                                    THEN gs.gameTurnNumber + 1 ELSE gs.gameTurnNumber

\* C26: in every state that is not game over currentPlayer is white iff
\* plyCount is even and gameTurnNumber = 1 + floor(plyCount / 2); a finalized
\* move flips currentPlayer and, after black's ply, increments gameTurnNumber
\* only when it does not end the game by checkmate, stalemate or king capture.
C26_TurnCounters == []TurnMatchesPly /\ [][TurnAdvance]_vars

\* a move has just ended the game by its verdict, later than the first turn,
\* and the turn stays with the mover
C26_Witness ==
    /\ lastCall \in {"move", "promotion"}
    /\ EndedByVerdict(gs)
    /\ gs.gameTurnNumber > 1
    /\ gs.moveLog # <<>>
    /\ gs.currentPlayer = gs.moveLog[Len(gs.moveLog)].player

\* the first step changes neither the counters nor the logs
AwaitingKeeps(s, ns) ==
    /\ ns.plyCount = s.plyCount
    /\ ns.currentPlayer = s.currentPlayer
    /\ ns.moveLog = s.moveLog
    /\ ns.history = s.history

TwoStepEquals(from, to) ==
    \E first \in {applyMove(gs, from.r, from.c, to.r, to.c, pendingSpellNotation, <<>>)} :
       first.success /\ first.awaitingPromotion
       => /\ AwaitingKeeps(gs, first.state)
          /\ \A promo \in PromotionPool :
                applyPromotion(first.state, promo, pendingSpellNotation)
                = applyMove(gs, from.r, from.c, to.r, to.c, pendingSpellNotation, promo)

CanCastAt(s, color, kind, turn) ==
    /\ Charges(s, color, kind) > 0
    /\ ~isSpellOnCooldown(s.spells[color], kind, turn)

\* the turn number at which the opponent of the mover plays next
UpcomingTurn(s, mover) ==
    IF mover = "black" THEN s.gameTurnNumber + 1 ELSE s.gameTurnNumber

DeclaredMate(s, mover) ==
    s.gameEndMessage = Capitalize(mover) \o " wins by checkmate!"

\* C28: whenever a finalized move sets the message "<Mover> wins by
\* checkmate!", the opponent has no standard legal move and cannot cast any
\* spell on the upcoming ply, availability being judged at the turn number at
\* which that ply is played.
C28_MateHasNoEscape ==
    [][ \A mover \in {"white", "black"} :
           FinalizedMove /\ gs.currentPlayer = mover /\ DeclaredMate(gs', mover)
           => /\ ~HasStandardMove(Opponent(mover), gs')
              /\ \A kind \in SpellKinds :
                    ~CanCastAt(gs', Opponent(mover), kind, UpcomingTurn(gs', mover)) ]_vars

\* the attackers of the player's king
KingAttackers(color, s) ==
    getAttackers(FindType(s.board, KingType(color)).r, FindType(s.board, KingType(color)).c,
                 Opponent(color), s.board, s.enPassantTarget, s.activeSpells, s.plyCount)

\* with the own piece P made jumpable, an own piece M can legally move to the
\* square of the attacker
OwnJumpCapture(color, s, attacker) ==
    \E pr \in Idx, pc \in Idx :
       /\ s.board[pr][pc] # Null
       /\ s.board[pr][pc].color = color
       /\ \E tmp \in {[s.board EXCEPT ![pr][pc].isJumpable = TRUE]} :
             \E mr \in Idx, mc \in Idx :
                /\ tmp[mr][mc] # Null
                /\ tmp[mr][mc].color = color
                /\ isValidMove(mr, mc, attacker[1], attacker[2], tmp, color,
                               s.enPassantTarget, s.castlingRights, s.activeSpells, s.plyCount)

\* in check, no standard legal move, no freeze to cast, a jump to cast
OnlyJumpLeft(color, s) ==
    /\ FindType(s.board, KingType(color)) # NoSquare
    /\ isKingInCheck(color, s.board, s.enPassantTarget, s.activeSpells, s.plyCount)
    /\ ~HasStandardMove(color, s)
    /\ ~CanCastAt(s, color, "freeze", s.gameTurnNumber)
    /\ CanCastAt(s, color, "jump", s.gameTurnNumber)

\* C29: when the player is in check, has no standard legal move, cannot cast
\* freeze and can cast jump, hasLegalMoves returns true iff the king has
\* exactly one attacker and there are an own piece P and an own piece M such
\* that, with P made jumpable, M can legally move to the attacker's square.
C29_JumpEscapeSearch ==
    \A color \in {"white", "black"} :
       OnlyJumpLeft(color, gs)
       => \E attackers \in {KingAttackers(color, gs)} :
             hasLegalMoves(color, gs)
             <=> /\ Cardinality(attackers) = 1
                 /\ \E attacker \in attackers : OwnJumpCapture(color, gs, attacker)

\* some piece of the player has a valid move in state s
StandardMoveExists(color, s) ==
    \E r \in Idx, c \in Idx, toR \in Idx, toC \in Idx :
       isValidMove(r, c, toR, toC, s.board, color, s.enPassantTarget,
                   s.castlingRights, s.activeSpells, s.plyCount)

\* the player has a king, is not in check and has no standard legal move
Stalemated(color, s) ==
    /\ FindType(s.board, KingType(color)) # NoSquare
    /\ ~isKingInCheck(color, s.board, s.enPassantTarget, s.activeSpells, s.plyCount)
    /\ ~StandardMoveExists(color, s)

----------------------------------------------------------------------------
(* Castling *)

\* the squares of row r strictly between columns a and b
Between(a, b) == { x \in Idx : Min(a, b) < x /\ x < Max(a, b) }

\* the castling right of a colour on a side
RightOf(rights, color, kingside) ==
    IF color = "white" THEN (IF kingside THEN rights.white.K ELSE rights.white.Q)
    ELSE (IF kingside THEN rights.black.k ELSE rights.black.q)

\* the conditions listed for a two-file move of the king on (r, c) to column toC
CastlingAllowed(s, r, c, toC) ==
    LET king == s.board[r][c]
        kingside == toC > c
        corner == IF kingside THEN 7 ELSE 0
        rook == s.board[r][corner]
        transit == IF kingside THEN c + 1 ELSE c - 1
        Attacked(x) == isSquareAttacked(r, x, Opponent(king.color), s.board,
                                        s.enPassantTarget, s.activeSpells, s.plyCount)
    IN /\ ~king.hasMoved
       /\ rook # Null /\ toLowerCase(rook.type) = "r" /\ rook.color = king.color
       /\ ~rook.hasMoved
       /\ RightOf(s.castlingRights, king.color, kingside)
       /\ ~isKingInCheck(king.color, s.board, s.enPassantTarget, s.activeSpells, s.plyCount)
       /\ \A x \in Between(c, corner) : s.board[r][x] = Null
       /\ ~Attacked(transit)
       /\ ~Attacked(toC)

\* the two-file moves of a king along its rank
KingTwoFileMoves(s) ==
    { m \in Idx \X Idx \X Idx :
        /\ toLowerCase(s.board[m[1]][m[2]].type) = "k"
        /\ Abs(m[3] - m[2]) = 2 }

\* C31: a two-file move of a king along its rank is accepted by isValidMove
\* exactly when the king and the corner rook have not moved, the right is
\* set, the king is not in check, the squares between king and rook are empty
\* and neither the transit nor the destination square is attacked.
C31_CastlingConditions ==
    \A m \in KingTwoFileMoves(gs) :
       isValidMove(m[1], m[2], m[1], m[3], gs.board, gs.board[m[1]][m[2]].color,
                   gs.enPassantTarget, gs.castlingRights, gs.activeSpells, gs.plyCount)
       <=> CastlingAllowed(gs, m[1], m[2], m[3])

\* the four castling rights as <<colour, kingside>>
RightKeys == {"white", "black"} \X BOOLEAN

\* the square holding the piece with that id, NoSquare when it is off the board
SquareOfId(s, id) ==
    IF \E r \in Idx, c \in Idx : s.board[r][c] # Null /\ s.board[r][c].id = id
    THEN LET rc == CHOOSE rc \in Idx \X Idx :
                     s.board[rc[1]][rc[2]] # Null /\ s.board[rc[1]][rc[2]].id = id
         IN [r |-> rc[1], c |-> rc[2]]
    ELSE NoSquare

\* the piece standing on (r, c) in the first state stands elsewhere in the second
MovedAway(s, ns, r, c) ==
    /\ s.board[r][c] # Null
    /\ SquareOfId(ns, s.board[r][c].id) \notin {NoSquare, [r |-> r, c |-> c]}

BackRank(color) == IF color = "white" THEN 7 ELSE 0

\* no right goes from false to true
RightsOnlyCleared ==
    \A k \in RightKeys :
       ~RightOf(gs.castlingRights, k[1], k[2]) => ~RightOf(gs'.castlingRights, k[1], k[2])

\* a king that changes square loses both rights of its colour
KingMoveClearsBoth ==
    \A r \in Idx, c \in Idx :
       toLowerCase(gs.board[r][c].type) = "k" /\ MovedAway(gs, gs', r, c)
       => \A side \in BOOLEAN : ~RightOf(gs'.castlingRights, gs.board[r][c].color, side)

\* a rook that leaves a corner of its own back rank loses that corner's right
RookMoveClearsCorner ==
    \A color \in {"white", "black"}, side \in BOOLEAN :
       LET r == BackRank(color)
           c == IF side THEN 7 ELSE 0
       IN toLowerCase(gs.board[r][c].type) = "r" /\ gs.board[r][c].color = color
          /\ MovedAway(gs, gs', r, c)
          => ~RightOf(gs'.castlingRights, color, side)

\* the move's part of a logged notation: what follows the spell notation and
\* its space, without the check or mate mark
RECURSIVE AfterSpace(_)
AfterSpace(n) ==
    IF \E i \in 1..Len(n) : n[i] = " "
    THEN AfterSpace(SubSeq(n, (CHOOSE i \in 1..Len(n) : n[i] = " ") + 1, Len(n)))
    ELSE n

MovePart(n) ==
    LET m == AfterSpace(n)
    IN IF EndsWith(m, "+") \/ EndsWith(m, "#") THEN SubSeq(m, 1, Len(m) - 1) ELSE m

\* a king that goes from the e-file to the g-file of its back rank has the
\* corner rook beside it on the f-file, and the move is logged as O-O
KingsideCastle(s, ns, color) ==
    /\ toLowerCase(s.board[BackRank(color)][4].type) = "k"
    /\ s.board[BackRank(color)][4].color = color
    /\ ns.board[BackRank(color)][6] # Null
    /\ ns.board[BackRank(color)][6].id = s.board[BackRank(color)][4].id

KingsideCastleShape ==
    \A color \in {"white", "black"} :
       KingsideCastle(gs, gs', color)
       => LET r == BackRank(color)
          IN /\ gs'.board[r][5] # Null
             /\ gs'.board[r][5].id = gs.board[r][7].id
             /\ toLowerCase(gs'.board[r][5].type) = "r"
             /\ gs'.board[r][7] = Null
             /\ Len(gs'.moveLog) = Len(gs.moveLog) + 1
             /\ MovePart(LastNotation(gs')) = <<"O", "-", "O">>
             /\ \A side \in BOOLEAN : ~RightOf(gs'.castlingRights, color, side)

\* C32: castling rights only go from true to false; a king move clears both
\* rights of its colour, a rook move from a starting corner clears that
\* corner's right, and kingside castling puts the king on the g-file and the
\* rook on the f-file with notation O-O.
C32_CastlingRights ==
    [][ RightsOnlyCleared /\ KingMoveClearsBoth /\ RookMoveClearsCorner
        /\ KingsideCastleShape ]_vars

\* white has castled kingside
C32_Witness ==
    /\ gs.moveLog # <<>>
    /\ LastNotation(gs) = <<"O", "-", "O">>
    /\ toLowerCase(gs.board[7][6].type) = "k"
    /\ toLowerCase(gs.board[7][5].type) = "r"
    /\ ~gs.castlingRights.white.K /\ ~gs.castlingRights.white.Q

----------------------------------------------------------------------------
(* Pawn double push *)

PawnDir(color) == IF color = "white" THEN -1 ELSE 1

PawnHomeRank(color) == IF color = "white" THEN 6 ELSE 1

\* some active jump spell targets the piece with that id
JumpActive(s, id) ==
    \E i \in 1..Len(s.activeSpells) :
       s.activeSpells[i].type = "jump" /\ s.activeSpells[i].targetId = id

\* the pawns of the board that have two squares ahead of them, as <<r, c>>
PawnsWithTwoAhead(s) ==
    { p \in Idx \X Idx :
        /\ toLowerCase(s.board[p[1]][p[2]].type) = "p"
        /\ p[1] + 2 * PawnDir(s.board[p[1]][p[2]].color) \in Idx }

\* isValidMove for the two-square push of the pawn on (r, c), on a given board
DoublePushValid(s, board, r, c) ==
    isValidMove(r, c, r + 2 * PawnDir(board[r][c].color), c, board, board[r][c].color,
                s.enPassantTarget, s.castlingRights, s.activeSpells, s.plyCount)

\* the board with the piece on (r, c), if any, flagged jumpable
FlaggedJumpable(board, r, c) ==
    IF board[r][c] = Null THEN board ELSE [board EXCEPT ![r][c].isJumpable = TRUE]

\* an accepted double push starts on the home rank, ends on an empty square
\* and passes over an empty square or a piece under an active jump
DoublePushOnlyWhen ==
    \A p \in PawnsWithTwoAhead(gs) :
       LET pawn == gs.board[p[1]][p[2]]
           dir == PawnDir(pawn.color)
           mid == gs.board[p[1] + dir][p[2]]
       IN DoublePushValid(gs, gs.board, p[1], p[2])
          => /\ p[1] = PawnHomeRank(pawn.color)
             /\ gs.board[p[1] + 2 * dir][p[2]] = Null
             /\ mid = Null \/ JumpActive(gs, mid.id)

\* while a jump on the middle piece is active, the push is accepted whenever
\* it would be accepted over a jumpable piece
DoublePushThroughJump ==
    \A p \in PawnsWithTwoAhead(gs) :
       LET pawn == gs.board[p[1]][p[2]]
           mid == gs.board[p[1] + PawnDir(pawn.color)][p[2]]
       IN /\ mid # Null
          /\ JumpActive(gs, mid.id)
          /\ DoublePushValid(gs, FlaggedJumpable(gs.board, p[1] + PawnDir(pawn.color), p[2]),
                             p[1], p[2])
          => DoublePushValid(gs, gs.board, p[1], p[2])

\* C33: a pawn double push is accepted only from the home rank, onto an
\* empty square, over a middle square that is empty or holds a piece under an
\* active jump; and it is accepted over such a piece for as long as the jump
\* is active (the caster's ply and the opponent's next ply).
C33_DoublePush == DoublePushOnlyWhen /\ DoublePushThroughJump

----------------------------------------------------------------------------
(* En passant target *)

\* the squares passed over by a pawn that went two squares forward between
\* the two states
PassedOver(s, ns) ==
    { [r |-> p[1] + PawnDir(s.board[p[1]][p[2]].color), c |-> p[2]] :
        p \in { q \in PawnsWithTwoAhead(s) :
                  SquareOfId(ns, s.board[q[1]][q[2]].id)
                    = [r |-> q[1] + 2 * PawnDir(s.board[q[1]][q[2]].color), c |-> q[2]] } }

\* after a finalized move the target is the passed-over square of a double
\* push, and null after any other move
TargetFollowsMove ==
    FinalizedMove
    => IF PassedOver(gs, gs') # {}
       THEN gs'.enPassantTarget \in PassedOver(gs, gs')
       ELSE gs'.enPassantTarget = NoSquare

\* the last logged half-move was a pawn double push over the square sq
LastMoveDoublePushOver(s, sq) ==
    /\ s.moveLog # <<>>
    /\ LET acts == s.moveLog[Len(s.moveLog)].actions
           mv == acts[Len(acts)]
       IN /\ Len(mv) = 5
          /\ mv[1] = mv[4]
          /\ FileIndex(mv[1]) = sq.c
          /\ Abs(parseInt(mv[2]) - parseInt(mv[5])) = 2
          /\ 8 - sq.r = (parseInt(mv[2]) + parseInt(mv[5])) \div 2
          /\ toLowerCase(s.board[8 - parseInt(mv[5])][sq.c].type) = "p"

\* the diagonal pawn moves onto an empty square that isValidMove accepts
EnPassantCaptures(s) ==
    { m \in Idx \X Idx \X Idx :
        /\ toLowerCase(s.board[m[1]][m[2]].type) = "p"
        /\ Abs(m[3] - m[2]) = 1
        /\ m[1] + PawnDir(s.board[m[1]][m[2]].color) \in Idx
        /\ s.board[m[1] + PawnDir(s.board[m[1]][m[2]].color)][m[3]] = Null
        /\ isValidMove(m[1], m[2], m[1] + PawnDir(s.board[m[1]][m[2]].color), m[3],
                       s.board, s.board[m[1]][m[2]].color, s.enPassantTarget,
                       s.castlingRights, s.activeSpells, s.plyCount) }

\* an en passant capture is accepted only while the last finalized move is
\* the double push over the capture square
CaptureOnlyNextPly ==
    \A m \in EnPassantCaptures(gs) :
       LET to == [r |-> m[1] + PawnDir(gs.board[m[1]][m[2]].color), c |-> m[3]]
       IN gs.enPassantTarget = to /\ LastMoveDoublePushOver(gs, to)

\* C34: after a finalized move enPassantTarget is the passed-over square iff
\* the move was a pawn double push and null otherwise, so an en passant
\* capture is accepted only on the ply that follows the double push.
C34_EnPassantTarget == []CaptureOnlyNextPly /\ [][TargetFollowsMove]_vars

\* an en passant capture has just been played
C34_Witness ==
    /\ lastCall = "move"
    /\ gs.enPassantTarget = NoSquare
    /\ gs.moveLog # <<>>
    /\ MovePart(LastNotation(gs)) = <<"e", "x", "d", "6">>
    /\ gs.board[3][3] = Null
    /\ toLowerCase(gs.board[2][3].type) = "p"

----------------------------------------------------------------------------
(* Position signature *)

\* the moves isValidMove accepts for the side to move of a snapshot
LegalMovesOf(snap) ==
    { m \in Idx \X Idx \X Idx \X Idx :
        /\ snap.board[m[1]][m[2]] # Null
        /\ snap.board[m[1]][m[2]].color = snap.currentPlayer
        /\ isValidMove(m[1], m[2], m[3], m[4], snap.board, snap.currentPlayer,
                       snap.enPassantTarget, snap.castlingRights, snap.activeSpells,
                       snap.plyCount) }

\* the pairs of history snapshots with the same signature
SameSignaturePairs(s) ==
    { p \in (1..Len(s.history)) \X (1..Len(s.history)) :
        /\ p[1] < p[2]
        /\ generateStateSignature(s.history[p[1]]) = generateStateSignature(s.history[p[2]]) }

\* C35: two history snapshots of a game with the same signature have the
\* same side to move and the same set of legal moves for that side.
C35_SignatureIdentifiesPosition ==
    \A p \in SameSignaturePairs(gs) :
       /\ gs.history[p[1]].currentPlayer = gs.history[p[2]].currentPlayer
       /\ LegalMovesOf(gs.history[p[1]]) = LegalMovesOf(gs.history[p[2]])

----------------------------------------------------------------------------
(* The stored row *)

\* C36: once the stored row has is_game_over = true, no later write changes
\* its compact_action_log, sets is_game_over back to false or moves status
\* away from 'finished'.
C36_FinishedStaysFinished ==
    [][ row.is_game_over
        => /\ row'.compact_action_log = row.compact_action_log
           /\ row'.is_game_over
           /\ row'.status = "finished" ]_vars

StatusRank(status) == IF status = "waiting" THEN 0 ELSE IF status = "active" THEN 1 ELSE 2

\* status 'active' only once both sides have moved
ActiveAfterBothMoved == row.status = "active" => row.ply_count >= 2

\* status 'finished' exactly when the game is over
FinishedIffOver == row.status = "finished" <=> row.is_game_over

StatusNeverBack == StatusRank(row'.status) >= StatusRank(row.status)

\* C37: the stored status goes waiting, active, finished and never backwards;
\* it is 'active' only when the stored ply_count is at least 2 and
\* 'finished' iff is_game_over is true.
C37_StatusLifecycle ==
    [](ActiveAfterBothMoved /\ FinishedIffOver) /\ [][StatusNeverBack]_vars

----------------------------------------------------------------------------
(* Client convergence *)

\* a game state without its history, piece ids left out
ClientView(s) == StripSnapshot(createSnapshot(s))

\* no PATCH in flight, every realtime UPDATE delivered, no pending spell or
\* promotion in the tab
Quiescent ==
    /\ \A h \in HandlerIds : handlers[h].pc = "idle"
    /\ channel = <<>>
    /\ pendingSpellNotation = <<>>
    /\ gs.awaitingPromotion = NoPromotion

\* C38: whenever the tab has no PATCH in flight, no pending spell or
\* promotion, and every realtime UPDATE has been delivered, its gameState is
\* the replay of the stored compact_action_log.
C38_ClientConvergence ==
    Quiescent => ClientView(gs) = ClientView(rowToGameState(row.compact_action_log))

----------------------------------------------------------------------------
(* Jumpable flags *)

\* C39: a piece on the board has isJumpable = true only if some entry of
\* activeSpells is a jump spell whose targetId is that piece's id.
C39_JumpableHasSpell ==
    \A r \in Idx, c \in Idx :
       gs.board[r][c] # Null /\ gs.board[r][c].isJumpable
       => JumpActive(gs, gs.board[r][c].id)

\* the jumpable h-pawn has been promoted to a queen on g8
C39_Witness ==
    /\ gs.board[0][6].type = "Q"
    /\ gs.board[0][6].isJumpable
    /\ gs.awaitingPromotion = NoPromotion

----------------------------------------------------------------------------
(* Pending promotion *)

\* a pawn stands on the first or the last row of the board
PawnOnLastRank(board) ==
    \E r \in {0, 7}, c \in Idx : board[r][c] # Null /\ toUpperCase(board[r][c].type) = "P"

\* with a promotion pending, no move, spell or resignation changes the state
PendingBlocksOthers ==
    gs.awaitingPromotion # NoPromotion
    => /\ \A mv \in MovePool : ~PoolMove(mv).success
       /\ \A sp \in SpellPool :
             ~applySpell(gs, sp[1], parseAlgebraicToCoords(sp[2]).r,
                         parseAlgebraicToCoords(sp[2]).c).success
       /\ applyResign(gs) = gs

NoStrandedPawn ==
    /\ gs.awaitingPromotion = NoPromotion => ~PawnOnLastRank(gs.board)
    /\ \A i \in 1..Len(gs.history) : ~PawnOnLastRank(gs.history[i].board)

\* C40: while awaitingPromotion is set, applyMove, applySpell and applyResign
\* do not change the state; no history snapshot and no state with
\* awaitingPromotion = null contains a pawn standing on its last rank.
C40_PendingPromotionBlocks ==
    PendingBlocksOthers /\ NoStrandedPawn

====
